---------------------------- MODULE Spec2Model ----------------------------
(***************************************************************************)
(* A model of the browser launcher of chaser-oxide:                        *)
(*   - ArgsBuilder (src/browser/argument.rs): the argument merger,         *)
(*   - BrowserConfigBuilder / BrowserConfig::launch (src/browser/config.rs)*)
(*     : the construction of the browser's command line,                   *)
(*   - Browser::launch and ws_url_from_output (src/browser/mod.rs): the    *)
(*     spawn, the endpoint discovery race and the clean-up of the child.   *)
(*                                                                         *)
(* Strings of the command line are TLA+ strings (concatenated with \o).    *)
(* The bytes of the child's stderr are sequences of one-character strings, *)
(* so that the scan of a line is computed character by character.          *)
(***************************************************************************)
EXTENDS Integers, Sequences, FiniteSets, Bags, TLC

VARIABLES
    \* ---- BrowserConfigBuilder / BrowserConfig / ArgsBuilder ----
    cb,            \* the BrowserConfigBuilder's fields
    ncalls,        \* number of builder methods called so far (bounded)
    config,        \* Option<BrowserConfig>: <<>> before build, <<cfg>> after
    cphase,        \* "building" | "built" | "launched" | "spawn_failed"
    builder,       \* the ArgsBuilder map: key -> sequence of values
    contrib,       \* history: the Args passed to ArgsBuilder::arg, in order
    rendered,      \* the bag of tokens ArgsBuilder::into_iter yields
    bphase,        \* "open" | "consumed": ArgsBuilder::into_iter takes self
    \* ---- Browser::launch / ws_url_from_output ----
    pc,            \* position of Browser::launch
    child,         \* the OS process: "none" | "running" | "zombie" | "reaped"
    exit_status,   \* the status the process exited with (<<>> while running)
    timer_fired,   \* timeout_fut is ready
    pipe,          \* bytes written to stderr by the child, not yet read
    pipe_open,     \* the write end of the stderr pipe is still open
    nwrites,       \* number of chunks the child has written (bounded)
    bufrd,         \* bytes held by the BufReader, read but not yet consumed
    stderr_bytes,  \* the Vec<u8> ws_url_from_output accumulates
    read_count,    \* bytes appended by the read_until future in flight
    last_line,     \* history: the new bytes of the last completed read
    outcome,       \* result of ws_url_from_output: <<>> until it returns
    launch_err,    \* the error `e` of the clean-up branch of launch
    cleanup,       \* history: the calls of the clean-up branch of launch
    trace,         \* history: the observable events of the launch
    chan,          \* messages on the outbound channel to the handler
    \* ---- the session: Browser and the Handler the caller polls ----
    hstate,        \* the Handler stream: "none" | "polling" | "ended"
    cpc,           \* position of Browser::close: "idle" | "awaiting"
    hclose,        \* the oneshot of CloseBrowser: "none" | "held" | "replied" | "dropped"
    \* ---- the Browser handle and the calls on it ----
    browser,       \* Option<Browser>: config, child, debug_ws_url, browser_context
    dropped,       \* the Browser has been dropped
    warned,        \* number of warnings Drop has logged
    attach,        \* connect_with_config: the probe's answer and the URL to open
    calls,         \* the calls on the Browser in order of issue, with their results
    \* ---- the Handler and the browser behind it ----
    hpending,      \* Handler: requests passed to the browser, their oneshots held
    hrecv,         \* history: the messages the Handler took from the channel
    hctx,          \* Handler: the browser contexts it tracks
    bctx,          \* the browser: the browser contexts created, in order
    pages,         \* the browser: its pages, each with its browser context
    cookies,       \* the browser: its cookies
    \* ---- ChaserProfile and the script it generates (profiles.rs) ----
    pbuilder,      \* the ChaserProfileBuilder's fields
    pcalls,        \* number of builder methods called so far (bounded)
    profile,       \* Option<ChaserProfile>: <<>> before build
    doc,           \* the document the bootstrap script is evaluated in
    wk             \* the object `new Worker(url)` returns in that document

cfgvars == <<cb, ncalls, config, cphase>>
argvars == <<builder, contrib, rendered, bphase>>
procvars == <<child, exit_status, timer_fired, pipe, pipe_open, nwrites>>
racevars == <<bufrd, stderr_bytes, read_count, last_line, outcome>>
launchvars == <<pc, launch_err, cleanup, trace, chan>>
sessvars == <<hstate, cpc, hclose>>
handlevars == <<browser, dropped, warned, attach, calls>>
remotevars == <<hpending, hrecv, hctx, bctx, pages, cookies>>
profvars == <<pbuilder, pcalls, profile, doc, wk>>
vars == <<cfgvars, argvars, procvars, racevars, launchvars, sessvars,
          handlevars, remotevars, profvars>>

(***************************************************************************)
(* Bounds of the model.                                                    *)
(***************************************************************************)
MaxBuilderCalls == 3   \* BrowserConfigBuilder methods called before build
MaxInserts == 3        \* ArgsBuilder::arg calls on a free-standing builder
MaxWrites == 2         \* chunks the child writes to stderr
MaxChan == 1           \* messages the channel to the handler holds
MaxCommands == 1       \* Browser::execute calls of a session
MaxCloseCalls == 1     \* Browser::close calls of a session
MaxCalls == 3          \* calls on a Browser, close apart
MaxInFlight == 2       \* calls on a Browser that overlap
MaxProcessCalls == 2   \* wait, try_wait, kill and get_mut_child calls
MaxPagesCalls == 2     \* Browser::pages calls of a session

(***************************************************************************)
(* Option values: None is <<>>, Some(x) is <<x>>.                          *)
(***************************************************************************)
None == <<>>
Some(x) == <<x>>
IsSome(o) == o # <<>>
Unwrap(o) == o[1]

(***************************************************************************)
(* Display of an unsigned integer (u16 / u32 `to_string`).                 *)
(***************************************************************************)
Digit(d) ==
    CASE d = 0 -> "0" [] d = 1 -> "1" [] d = 2 -> "2" [] d = 3 -> "3"
      [] d = 4 -> "4" [] d = 5 -> "5" [] d = 6 -> "6" [] d = 7 -> "7"
      [] d = 8 -> "8" [] d = 9 -> "9"

RECURSIVE UIntToString(_)
UIntToString(n) ==
    IF n < 10 THEN Digit(n) ELSE UIntToString(n \div 10) \o Digit(n % 10)

(***************************************************************************)
(* profiles.rs: Gpu, Os, ChaserProfileBuilder and ChaserProfile.  The text  *)
(* of the user agent is a sequence of characters.                          *)
(***************************************************************************)
Gpu ==
    {"NvidiaRTX3080", "NvidiaRTX4080", "NvidiaGTX1660", "IntelUHD630",
     "IntelIrisXe", "AppleM1Pro", "AppleM2Max", "AppleM4Max", "AmdRadeonRX6800"}

\* Gpu::vendor (lines 46-53)
Gpu_vendor(g) ==
    CASE g \in {"NvidiaRTX3080", "NvidiaRTX4080", "NvidiaGTX1660"} -> "Google Inc. (NVIDIA)"
      [] g \in {"IntelUHD630", "IntelIrisXe"} -> "Google Inc. (Intel)"
      [] g \in {"AppleM1Pro", "AppleM2Max", "AppleM4Max"} -> "Google Inc. (Apple)"
      [] g = "AmdRadeonRX6800" -> "Google Inc. (AMD)"

\* Gpu::renderer (lines 56-78)
Gpu_renderer(g) ==
    CASE g = "NvidiaRTX3080" ->
            "ANGLE (NVIDIA, NVIDIA GeForce RTX 3080 Direct3D11 vs_5_0 ps_5_0)"
      [] g = "NvidiaRTX4080" ->
            "ANGLE (NVIDIA, NVIDIA GeForce RTX 4080 Direct3D11 vs_5_0 ps_5_0)"
      [] g = "NvidiaGTX1660" ->
            "ANGLE (NVIDIA, NVIDIA GeForce GTX 1660 SUPER Direct3D11 vs_5_0 ps_5_0)"
      [] g = "IntelUHD630" ->
            "ANGLE (Intel, Intel(R) UHD Graphics 630 Direct3D11 vs_5_0 ps_5_0)"
      [] g = "IntelIrisXe" ->
            "ANGLE (Intel, Intel(R) Iris(R) Xe Graphics Direct3D11 vs_5_0 ps_5_0)"
      [] g = "AppleM1Pro" -> "ANGLE (Apple, Apple M1 Pro, OpenGL 4.1)"
      [] g = "AppleM2Max" -> "ANGLE (Apple, Apple M2 Max, OpenGL 4.1)"
      [] g = "AppleM4Max" ->
            "ANGLE (Apple, ANGLE Metal Renderer: Apple M4 Max, Unspecified Version)"
      [] g = "AmdRadeonRX6800" ->
            "ANGLE (AMD, AMD Radeon RX 6800 XT Direct3D11 vs_5_0 ps_5_0)"

Os == {"Windows", "MacOSIntel", "MacOSArm", "Linux"}

\* Os::platform (lines 96-102): the navigator.platform value
Os_platform(os) ==
    CASE os = "Windows" -> "Win32"
      [] os \in {"MacOSIntel", "MacOSArm"} -> "MacIntel"
      [] os = "Linux" -> "Linux x86_64"

\* Os::hints_platform (lines 105-111): the client hints platform
Os_hints_platform(os) ==
    CASE os = "Windows" -> "Windows"
      [] os \in {"MacOSIntel", "MacOSArm"} -> "macOS"
      [] os = "Linux" -> "Linux"

\* ChaserProfile::new (lines 154-171)
ChaserProfile_new(os) ==
    [os |-> os,
     chrome_version |-> 129,
     gpu |-> CASE os = "Windows" -> "NvidiaRTX3080"
               [] os = "MacOSIntel" -> "AppleM1Pro"
               [] os = "MacOSArm" -> "AppleM4Max"
               [] os = "Linux" -> "NvidiaGTX1660",
     memory_gb |-> 8,
     cpu_cores |-> 8,
     locale |-> "en-US",
     timezone |-> "America/New_York",
     screen_width |-> 1920,
     screen_height |-> 1080]

\* ChaserProfile::windows, macos_intel, macos_arm, linux (lines 174-191)
ProfilePresets ==
    { ChaserProfile_new("Windows"),
      [ChaserProfile_new("MacOSIntel") EXCEPT !.gpu = "AppleM1Pro"],
      [ChaserProfile_new("MacOSArm") EXCEPT !.gpu = "AppleM4Max"],
      ChaserProfile_new("Linux") }

\* ChaserProfileBuilder::build (lines 565-577): every field is copied
ChaserProfileBuilder_build(b) ==
    [os |-> b.os, chrome_version |-> b.chrome_version, gpu |-> b.gpu,
     memory_gb |-> b.memory_gb, cpu_cores |-> b.cpu_cores, locale |-> b.locale,
     timezone |-> b.timezone, screen_width |-> b.screen_width,
     screen_height |-> b.screen_height]

\* format!("{}", n) of a u32: its decimal digits
RECURSIVE Decimal(_)
Decimal(n) ==
    IF n < 10 THEN <<Digit(n)>> ELSE Decimal(n \div 10) \o <<Digit(n % 10)>>

\* "Windows NT 10.0; Win64; x64"
UA_WINDOWS ==
    <<"W","i","n","d","o","w","s"," ","N","T"," ","1","0",".","0",";",
      " ","W","i","n","6","4",";"," ","x","6","4">>

\* "Macintosh; Intel Mac OS X 10_15_7"
UA_MAC ==
    <<"M","a","c","i","n","t","o","s","h",";"," ","I","n","t","e","l",
      " ","M","a","c"," ","O","S"," ","X"," ","1","0","_","1","5","_",
      "7">>

\* "X11; Linux x86_64"
UA_LINUX ==
    <<"X","1","1",";"," ","L","i","n","u","x"," ","x","8","6","_","6",
      "4">>

\* "Mozilla/5.0 ("
UA_HEAD ==
    <<"M","o","z","i","l","l","a","/","5",".","0"," ","(">>

\* ") AppleWebKit/537.36 (KHTML, like Gecko) Chrome/"
UA_MIDDLE ==
    <<")"," ","A","p","p","l","e","W","e","b","K","i","t","/","5","3",
      "7",".","3","6"," ","(","K","H","T","M","L",","," ","l","i","k",
      "e"," ","G","e","c","k","o",")"," ","C","h","r","o","m","e","/">>

\* ".0.0.0 Safari/537.36"
UA_TAIL ==
    <<".","0",".","0",".","0"," ","S","a","f","a","r","i","/","5","3",
      "7",".","3","6">>

user_agent_without_version(p) ==
    UA_HEAD \o UA_WINDOWS \o UA_MIDDLE \o UA_TAIL

\* ChaserProfile::user_agent (lines 224-235)
user_agent(p) ==
    LET os_part == CASE p.os = "Windows" -> UA_WINDOWS
                     [] p.os \in {"MacOSIntel", "MacOSArm"} -> UA_MAC
                     [] p.os = "Linux" -> UA_LINUX
    IN  UA_HEAD \o os_part \o UA_MIDDLE \o Decimal(p.chrome_version) \o UA_TAIL

(***************************************************************************)
(* ChaserProfile::bootstrap_script (lines 237-492).  The script is kept as  *)
(* the values format! puts into its placeholders, together with what its    *)
(* statements do with them when the script is evaluated in a document.      *)
(***************************************************************************)
\* lines 304-310: the brands of userAgentData
Brands(p) ==
    << [brand |-> "Google Chrome", version |-> Decimal(p.chrome_version)],
       [brand |-> "Chromium", version |-> Decimal(p.chrome_version)],
       [brand |-> "Not=A?Brand", version |-> <<"2", "4">>] >>

\* lines 317-328: the answers of getHighEntropyValues, by hint
HighEntropyValues(p) ==
    [platform |-> Os_platform(p.os),
     platformVersion |-> "19.0.0",
     architecture |-> "x86",
     model |-> "",
     bitness |-> "64"]

\* the named arguments of the two format! calls (lines 437-444 and 490) at
\* the places the template uses them, and the names the script declares at
\* its top level (`const OriginalWorker`, line 450, outside the function of
\* lines 240-435)
bootstrap_script(p) ==
    [ua |-> user_agent(p),
     platform |-> Os_platform(p.os),
     hardwareConcurrency |-> p.cpu_cores,
     deviceMemory |-> p.memory_gb,
     maxTouchPoints |-> 0,
     webgl_vendor |-> Gpu_vendor(p.gpu),
     webgl_renderer |-> Gpu_renderer(p.gpu),
     userAgentData |-> [brands |-> Brands(p), mobile |-> FALSE,
                        platform |-> Os_hints_platform(p.os)],
     highEntropy |-> HighEntropyValues(p),
     webdriver |-> FALSE,
     declares |-> {"OriginalWorker"}]

\* a document of the automated browser before any script has run in it
NewDocument ==
    [evals |-> <<>>,
     declared |-> {},
     markers |-> TRUE,
     platform |-> "host",
     hardwareConcurrency |-> 2,
     deviceMemory |-> 4,
     maxTouchPoints |-> 0,
     webgl_vendor |-> "host",
     webgl_renderer |-> "host",
     getParameter_wrappers |-> 0,
     userAgentData |-> None,
     highEntropy |-> None,
     webdriver |-> TRUE,
     chrome |-> FALSE,
     Worker_wrappers |-> 0]

\* the statements of lines 240-435 and 450-488 carried out in document d
RunScript(d, s) ==
    [evals |-> Append(d.evals, "completed"),
     declared |-> d.declared \cup s.declares,
     markers |-> FALSE,
     platform |-> s.platform,
     hardwareConcurrency |-> s.hardwareConcurrency,
     deviceMemory |-> s.deviceMemory,
     maxTouchPoints |-> s.maxTouchPoints,
     webgl_vendor |-> s.webgl_vendor,
     webgl_renderer |-> s.webgl_renderer,
     getParameter_wrappers |-> d.getParameter_wrappers + 1,
     userAgentData |-> Some(s.userAgentData),
     highEntropy |-> Some(s.highEntropy),
     webdriver |-> s.webdriver,
     chrome |-> TRUE,
     Worker_wrappers |-> d.Worker_wrappers + 1]

\* the script is evaluated in document d as a script of its own: a `const`
\* at its top level that the document has already declared is an early
\* error (SyntaxError: Identifier has already been declared), thrown before
\* any statement of the script runs
EvaluateScript(d, s) ==
    IF s.declares \cap d.declared # {}
    THEN [d EXCEPT !.evals = Append(@, "SyntaxError")]
    ELSE RunScript(d, s)

(***************************************************************************)
(* The Worker wrapper of the script (lines 450-488): the object that       *)
(* `new Worker(url)` returns once the script has run.                      *)
(***************************************************************************)
\* no Worker has been constructed
NoWorker ==
    [st |-> "none", blob |-> <<>>, realWorker |-> FALSE, pendingMessages |-> <<>>,
     reactions |-> <<>>, posted |-> <<>>, received |-> <<>>, onmessage |-> FALSE,
     terminated |-> FALSE]

\* lines 453-474: fetch(url) is started, the callback of lines 469-472 is
\* registered on workerPromise and the wrapper object is returned
Wrapper_new(w) == [w EXCEPT !.st = "fetching", !.reactions = <<"deliver">>]

\* lines 454-461: the text arrives; the blob is the injected code followed
\* by the fetched code and the real worker is constructed from it
Wrapper_fetched(w) == [w EXCEPT !.st = "resolved", !.blob = <<"injectedCode", "code">>]

\* fetch or res.text() fails: workerPromise is rejected
Wrapper_fetch_failed(w) == [w EXCEPT !.st = "rejected"]

Wrapper_postMessage_unbuffered(w, msg) ==
    IF w.realWorker
    THEN [w EXCEPT !.posted = Append(@, msg), !.received = Append(@, msg)]
    ELSE [w EXCEPT !.posted = Append(@, msg)]

\* lines 475-481: postMessage of the wrapper
Wrapper_postMessage(w, msg) ==
    IF w.realWorker
    THEN [w EXCEPT !.posted = Append(@, msg), !.received = Append(@, msg)]
    ELSE [w EXCEPT !.posted = Append(@, msg), !.pendingMessages = Append(@, msg)]

\* lines 482-487: the onmessage setter and terminate register a callback on
\* workerPromise
Wrapper_then(w, reaction) == [w EXCEPT !.reactions = Append(@, reaction)]

\* the first registered callback of the fulfilled workerPromise runs: lines
\* 469-472 (realWorker is set and the buffered messages are posted), line
\* 483 or line 486
Wrapper_react(w) ==
    LET r == Head(w.reactions)
        v == [w EXCEPT !.reactions = Tail(@)]
    IN  CASE r = "deliver" ->
                [v EXCEPT !.realWorker = TRUE,
                          !.received = @ \o w.pendingMessages]
          [] r = "onmessage" -> [v EXCEPT !.onmessage = TRUE]
          [] r = "terminate" -> [v EXCEPT !.terminated = TRUE]

(***************************************************************************)
(* Arg (argument.rs): a key and an ordered list of values.                 *)
(***************************************************************************)
ArgKey(key) == [key |-> key, values |-> <<>>]
ArgValue(key, value) == [key |-> key, values |-> <<value>>]
ArgValues(key, values) == [key |-> key, values |-> values]

(***************************************************************************)
(* ArgsBuilder (argument.rs): HashMap<String, Vec<String>>.                *)
(***************************************************************************)
ArgsBuilder_new == [k \in {} |-> <<>>]

ArgsBuilder_has(b, key) == key \in DOMAIN b

ArgsBuilder_arg_replacing(b, a) ==
    [k \in DOMAIN b \cup {a.key} |-> IF k = a.key THEN a.values ELSE b[k]]

ArgsBuilder_arg(b, a) ==
    IF a.key \in DOMAIN b
    THEN [b EXCEPT ![a.key] = @ \o a.values]
    ELSE [k \in DOMAIN b \cup {a.key} |-> IF k = a.key THEN a.values ELSE b[k]]

RECURSIVE ArgsBuilder_args(_, _)
ArgsBuilder_args(b, as) ==
    IF as = <<>> THEN b
    ELSE ArgsBuilder_args(ArgsBuilder_arg(b, Head(as)), Tail(as))

\* `values.join(",")`
RECURSIVE Join(_, _)
Join(values, sep) ==
    IF values = <<>> THEN ""
    ELSE IF Len(values) = 1 THEN values[1]
    ELSE values[1] \o sep \o Join(Tail(values), sep)

ArgToken_always_valued(key, values) == "--" \o key \o "=" \o Join(values, ",")

\* the closure of ArgsBuilder::into_iter: one token per map entry
ArgToken(key, values) ==
    IF values = <<>> THEN "--" \o key
    ELSE "--" \o key \o "=" \o Join(values, ",")

\* The HashMap is iterated in an arbitrary order: the result is kept as the
\* bag (multiset) of the tokens.
ArgsBuilder_into_iter(b) ==
    LET toks == {ArgToken(k, b[k]) : k \in DOMAIN b}
    IN  [t \in toks |-> Cardinality({k \in DOMAIN b : ArgToken(k, b[k]) = t})]

(***************************************************************************)
(* DEFAULT_ARGS (config.rs): the built-in default argument table.          *)
(***************************************************************************)
DEFAULT_ARGS == <<
    ArgKey("disable-background-networking"),
    ArgValues("enable-features", <<"NetworkService", "NetworkServiceInProcess">>),
    ArgKey("disable-background-timer-throttling"),
    ArgKey("disable-backgrounding-occluded-windows"),
    ArgKey("disable-breakpad"),
    ArgKey("disable-client-side-phishing-detection"),
    ArgKey("disable-component-extensions-with-background-pages"),
    ArgKey("disable-default-apps"),
    ArgKey("disable-dev-shm-usage"),
    ArgValues("disable-features", <<"TranslateUI">>),
    ArgKey("disable-hang-monitor"),
    ArgKey("disable-ipc-flooding-protection"),
    ArgKey("disable-popup-blocking"),
    ArgKey("disable-prompt-on-repost"),
    ArgKey("disable-renderer-backgrounding"),
    ArgKey("disable-sync"),
    ArgValues("force-color-profile", <<"srgb">>),
    ArgKey("metrics-recording-only"),
    ArgKey("no-first-run"),
    ArgKey("enable-automation"),
    ArgValues("password-store", <<"basic">>),
    ArgKey("use-mock-keychain"),
    ArgValues("enable-blink-features", <<"IdleDetection">>),
    ArgValues("lang", <<"en_US">>) >>

LAUNCH_TIMEOUT == 20000

\* std::env::temp_dir() of the process, and Path::join
TempDir == "/tmp"
PathJoin(dir, name) == dir \o "/" \o name

(***************************************************************************)
(* BrowserConfigBuilder (config.rs).                                       *)
(***************************************************************************)
BrowserConfigBuilder_default ==
    [ headless |-> "True",
      sandbox |-> TRUE,
      window_size |-> None,
      port |-> 0,
      executable |-> None,
      extensions |-> <<>>,
      user_data_dir |-> None,
      incognito |-> FALSE,
      launch_timeout |-> LAUNCH_TIMEOUT,
      ignore_https_errors |-> TRUE,
      ignore_invalid_events |-> TRUE,
      disable_https_first |-> FALSE,
      args |-> <<>>,
      disable_default_args |-> FALSE,
      request_intercept |-> FALSE,
      cache_enabled |-> TRUE,
      hidden |-> FALSE ]

\* detection::default_executable: the browser binary found on this machine
DefaultExecutable == "/usr/bin/chrome"

\* BrowserConfigBuilder::build: the fields are moved into the BrowserConfig
\* (ignore_invalid_events becomes ignore_invalid_messages); an executable
\* that was not given is detected.
BrowserConfigBuilder_build(b) ==
    [ headless |-> b.headless,
      sandbox |-> b.sandbox,
      window_size |-> b.window_size,
      port |-> b.port,
      executable |-> IF IsSome(b.executable) THEN Unwrap(b.executable)
                     ELSE DefaultExecutable,
      extensions |-> b.extensions,
      user_data_dir |-> b.user_data_dir,
      incognito |-> b.incognito,
      launch_timeout |-> b.launch_timeout,
      ignore_https_errors |-> b.ignore_https_errors,
      ignore_invalid_messages |-> b.ignore_invalid_events,
      disable_https_first |-> b.disable_https_first,
      args |-> b.args,
      disable_default_args |-> b.disable_default_args,
      request_intercept |-> b.request_intercept,
      cache_enabled |-> b.cache_enabled,
      hidden |-> b.hidden ]

(***************************************************************************)
(* The inputs the builder methods are called with.                         *)
(***************************************************************************)
HeadlessModes == {"False", "True", "New"}
Ports == {9222}
WindowSizes == { <<1280, 720>> }
UserDataDirs == {"/data/profile"}
ExtensionPaths == {"/ext/a", "/ext/b"}
LaunchTimeouts == {0}
CallerArgs ==
    { ArgValue("remote-debugging-port", "9333"),
      ArgKey("remote-debugging-port"),
      ArgValue("disable-features", "Foo"),
      ArgKey("disable-extensions"),
      ArgKey("no-first-run"),
      ArgValue("user-data-dir", "/u"),
      ArgValue("window-size", "1,1"),
      ArgKey("headless"),
      ArgValue("load-extension", "/ext/c"),
      ArgValue("disable-blink-features", "Bar") }

(***************************************************************************)
(* BrowserConfig::launch (config.rs): the ArgsBuilder it fills, statement  *)
(* by statement.                                                           *)
(***************************************************************************)
\* lines 370-374
LaunchBaseArgs_defaults_always(c) ==
    ArgsBuilder_args(ArgsBuilder_args(ArgsBuilder_new, DEFAULT_ARGS), c.args)

LaunchBaseArgs(c) ==
    IF c.disable_default_args
    THEN ArgsBuilder_args(ArgsBuilder_new, c.args)
    ELSE ArgsBuilder_args(ArgsBuilder_args(ArgsBuilder_new, DEFAULT_ARGS), c.args)

\* lines 376-378
LaunchPortArg_unconditional(b, c) ==
    ArgsBuilder_arg(b, ArgValue("remote-debugging-port", UIntToString(c.port)))

LaunchPortArg(b, c) ==
    IF ~ArgsBuilder_has(b, "remote-debugging-port")
    THEN ArgsBuilder_arg(b, ArgValue("remote-debugging-port", UIntToString(c.port)))
    ELSE b

\* lines 380-388
LaunchExtensionArgs_both(b, c) ==
    ArgsBuilder_args(ArgsBuilder_arg(b, ArgKey("disable-extensions")),
                     [i \in 1..Len(c.extensions) |->
                         ArgValue("load-extension", c.extensions[i])])

LaunchExtensionArgs(b, c) ==
    IF c.extensions = <<>>
    THEN ArgsBuilder_arg(b, ArgKey("disable-extensions"))
    ELSE ArgsBuilder_args(b, [i \in 1..Len(c.extensions) |->
                                 ArgValue("load-extension", c.extensions[i])])

\* lines 390-400
LaunchUserDataDirArg_explicit_only(b, c) ==
    IF IsSome(c.user_data_dir)
    THEN ArgsBuilder_arg(b, ArgValue("user-data-dir", Unwrap(c.user_data_dir)))
    ELSE b

LaunchUserDataDirArg(b, c) ==
    IF IsSome(c.user_data_dir)
    THEN ArgsBuilder_arg(b, ArgValue("user-data-dir", Unwrap(c.user_data_dir)))
    ELSE ArgsBuilder_arg(b, ArgValue("user-data-dir",
                                     PathJoin(TempDir, "chromiumoxide-runner")))

\* lines 402-404
LaunchWindowSizeArg(b, c) ==
    IF IsSome(c.window_size)
    THEN ArgsBuilder_arg(b, ArgValues("window-size",
            << UIntToString(Unwrap(c.window_size)[1]),
               UIntToString(Unwrap(c.window_size)[2]) >>))
    ELSE b

\* lines 406-408
LaunchSandboxArgs(b, c) ==
    IF ~c.sandbox
    THEN ArgsBuilder_args(b, << ArgKey("no-sandbox"), ArgKey("disable-setuid-sandbox") >>)
    ELSE b

LaunchHeadlessArgs_new_as_legacy(b, c) ==
    IF c.headless = "False" THEN b
    ELSE ArgsBuilder_args(b, << ArgKey("headless"), ArgKey("hide-scrollbars"),
                                ArgKey("mute-audio") >>)

\* lines 410-426
LaunchHeadlessArgs(b, c) ==
    CASE c.headless = "False" -> b
      [] c.headless = "True" ->
            ArgsBuilder_args(b, << ArgKey("headless"), ArgKey("hide-scrollbars"),
                                   ArgKey("mute-audio") >>)
      [] c.headless = "New" ->
            ArgsBuilder_args(b, << ArgValue("headless", "new"), ArgKey("hide-scrollbars"),
                                   ArgKey("mute-audio") >>)

\* lines 428-430
LaunchIncognitoArg(b, c) ==
    IF c.incognito THEN ArgsBuilder_arg(b, ArgKey("incognito")) ELSE b

LaunchHiddenArg_if_absent(b, c) ==
    IF c.hidden /\ ~ArgsBuilder_has(b, "disable-blink-features")
    THEN ArgsBuilder_arg(b, ArgValue("disable-blink-features", "AutomationControlled"))
    ELSE b

\* lines 432-434
LaunchHiddenArg(b, c) ==
    IF c.hidden
    THEN ArgsBuilder_arg(b, ArgValue("disable-blink-features", "AutomationControlled"))
    ELSE b

LaunchHttpsFirstArg_first_only(b, c) ==
    IF c.disable_https_first
    THEN ArgsBuilder_arg(b, ArgValue("disable-features", "HttpsUpgrades"))
    ELSE b

\* lines 436-441
LaunchHttpsFirstArg(b, c) ==
    IF c.disable_https_first
    THEN ArgsBuilder_arg(b, ArgValues("disable-features",
            << "HttpsUpgrades", "HttpsFirstBalancedModeAutoEnable" >>))
    ELSE b

\* the builder as it stands at line 445, before into_iter
LaunchBuilder(c) ==
    LET b1 == LaunchBaseArgs(c)
        b2 == LaunchPortArg(b1, c)
        b3 == LaunchExtensionArgs(b2, c)
        b4 == LaunchUserDataDirArg(b3, c)
        b5 == LaunchWindowSizeArg(b4, c)
        b6 == LaunchSandboxArgs(b5, c)
        b7 == LaunchHeadlessArgs(b6, c)
        b8 == LaunchIncognitoArg(b7, c)
        b9 == LaunchHiddenArg(b8, c)
    IN  LaunchHttpsFirstArg(b9, c)


(***************************************************************************)
(* Bytes and text.  A byte is a one-character string; "0xFF" stands for a  *)
(* byte that cannot occur in UTF-8.                                        *)
(***************************************************************************)
\* the announcement pattern of line 574
LISTENING_ON ==
    <<"l","i","s","t","e","n","i","n","g"," ","o","n"," ">>

\* the scheme prefix of line 575
WS_SCHEME ==
    <<"w","s">>

\* the path marker of line 575
DEVTOOLS_BROWSER ==
    <<"d","e","v","t","o","o","l","s","/","b","r","o","w","s","e","r">>

(***************************************************************************)
(* The chunks the child may write to its stderr.                           *)
(***************************************************************************)
\* "DevTools listening on ws://127.0.0.1:9222/devtools/browser/abc\n"
AnnounceLine ==
    <<"D","e","v","T","o","o","l","s"," ","l","i","s","t","e","n","i","n",
      "g"," ","o","n"," ","w","s",":","/","/","1","2","7",".","0",".","0",
      ".","1",":","9","2","2","2","/","d","e","v","t","o","o","l","s","/",
      "b","r","o","w","s","e","r","/","a","b","c","\n">>

\* the URL of AnnounceLine
AnnounceUrl ==
    <<"w","s",":","/","/","1","2","7",".","0",".","0",".","1",":","9","2",
      "2","2","/","d","e","v","t","o","o","l","s","/","b","r","o","w","s",
      "e","r","/","a","b","c">>

\* "listening on ws://h/devtools/browser/x \r\n"
CrLfLine ==
    <<"l","i","s","t","e","n","i","n","g"," ","o","n"," ","w","s",":","/",
      "/","h","/","d","e","v","t","o","o","l","s","/","b","r","o","w","s",
      "e","r","/","x"," ","\r","\n">>

\* "warn\n"
NoiseLine ==
    <<"w","a","r","n","\n">>

\* the pattern, but not a WebSocket scheme
HttpLine ==
    <<"l","i","s","t","e","n","i","n","g"," ","o","n"," ","h","t","t","p",
      ":","/","/","h","/","d","e","v","t","o","o","l","s","/","b","r","o",
      "w","s","e","r","/","x","\n">>

\* the pattern and scheme, but no devtools/browser marker
NoMarkerLine ==
    <<"l","i","s","t","e","n","i","n","g"," ","o","n"," ","w","s",":","/",
      "/","h","/","j","s","o","n","\n">>

\* the pattern twice; only the first value is a devtools URL
TwiceLine ==
    <<"l","i","s","t","e","n","i","n","g"," ","o","n"," ","w","s",":","/",
      "/","h","/","d","e","v","t","o","o","l","s","/","b","r","o","w","s",
      "e","r","/","a"," ","l","i","s","t","e","n","i","n","g"," ","o","n",
      " ","y","\n">>

\* a byte that is never valid UTF-8, then a line feed
BadUtf8Line ==
    <<"0xFF","\n">>

\* the head of a line written in two pieces
PartHead ==
    <<"l","i","s","t","e","n","i","n","g"," ","o","n"," ","w","s",":","/",
      "/","h","/","d","e","v","t","o","o","l","s","/","b","r","o">>

\* the tail of that line
PartTail ==
    <<"w","s","e","r","/","p","\n">>

StderrChunks ==
    { AnnounceLine, CrLfLine, NoiseLine, HttpLine, NoMarkerLine, TwiceLine,
      BadUtf8Line, PartHead, PartTail }

ExitStatuses == {"exit:0", "exit:1"}
KilledStatus == "signal:9"

(***************************************************************************)
(* The str / slice operations ws_url_from_output uses (mod.rs, 566-579).   *)
(***************************************************************************)
Occurrences(s, d) ==
    {i \in 1..(Len(s) - Len(d) + 1) : SubSeq(s, i, i + Len(d) - 1) = d}

SetMax(S) == CHOOSE m \in S : \A x \in S : x <= m
SetMin(S) == CHOOSE m \in S : \A x \in S : m <= x

\* str::starts_with
starts_with(s, p) == Len(p) <= Len(s) /\ SubSeq(s, 1, Len(p)) = p

\* str::contains
contains(s, p) == Occurrences(s, p) # {}

\* str::rsplit_once: the text before and after the last occurrence
rsplit_once(s, d) ==
    IF Occurrences(s, d) = {} THEN None
    ELSE LET i == SetMax(Occurrences(s, d))
         IN  Some(<< SubSeq(s, 1, i - 1), SubSeq(s, i + Len(d), Len(s)) >>)

IsWhitespace(c) == c \in {" ", "\t", "\n", "\r"}

\* str::trim: without leading and trailing whitespace
trim(s) ==
    LET keep == {i \in 1..Len(s) : ~IsWhitespace(s[i])}
    IN  IF keep = {} THEN <<>> ELSE SubSeq(s, SetMin(keep), SetMax(keep))

\* std::str::from_utf8(..).is_ok()
from_utf8_ok(bytes) == \A i \in 1..Len(bytes) : bytes[i] # "0xFF"

(***************************************************************************)
(* Results of ws_url_from_output: Ok(url) and the three CdpError variants, *)
(* each with the BrowserStderr it carries.                                 *)
(***************************************************************************)
OkUrl(url) == [kind |-> "Url", val |-> url, stderr |-> <<>>]
LaunchTimeout(bytes) == [kind |-> "LaunchTimeout", val |-> <<>>, stderr |-> bytes]
LaunchExit(status, bytes) == [kind |-> "LaunchExit", val |-> <<status>>, stderr |-> bytes]
LaunchIo(cause, bytes) == [kind |-> "LaunchIo", val |-> <<cause>>, stderr |-> bytes]
Continue == [kind |-> "continue", val |-> <<>>, stderr |-> <<>>]

(***************************************************************************)
(* One poll of `buf.read_until(b'\n', &mut stderr_bytes)` on the BufReader *)
(* over the stderr pipe: the buffer is refilled from the pipe when empty;  *)
(* bytes up to and including the first line feed are appended to           *)
(* stderr_bytes; without a line feed everything available is appended and  *)
(* the read stays pending, unless the pipe is at end of file.              *)
(***************************************************************************)
IndexOfNewline(b) ==
    IF \E i \in 1..Len(b) : b[i] = "\n"
    THEN SetMin({i \in 1..Len(b) : b[i] = "\n"})
    ELSE 0

RECURSIVE PollReadUntil(_, _, _, _, _)
PollReadUntil_never_pending(b, p, sb, n, open) ==
    IF b = <<>>
    THEN IF p # <<>>
         THEN PollReadUntil(p, <<>>, sb, n, open)
         ELSE [ready |-> TRUE, bufrd |-> b, pipe |-> p, stderr_bytes |-> sb, read |-> n]
    ELSE LET i == IndexOfNewline(b)
         IN  IF i > 0
             THEN [ready |-> TRUE, bufrd |-> SubSeq(b, i + 1, Len(b)), pipe |-> p,
                   stderr_bytes |-> sb \o SubSeq(b, 1, i), read |-> n + i]
             ELSE PollReadUntil(<<>>, p, sb \o b, n + Len(b), open)

PollReadUntil(b, p, sb, n, open) ==
    IF b = <<>>
    THEN IF p # <<>>
         THEN PollReadUntil(p, <<>>, sb, n, open)
         ELSE [ready |-> ~open, bufrd |-> b, pipe |-> p, stderr_bytes |-> sb, read |-> n]
    ELSE LET i == IndexOfNewline(b)
         IN  IF i > 0
             THEN [ready |-> TRUE, bufrd |-> SubSeq(b, i + 1, Len(b)), pipe |-> p,
                   stderr_bytes |-> sb \o SubSeq(b, 1, i), read |-> n + i]
             ELSE PollReadUntil(<<>>, p, sb \o b, n + Len(b), open)

\* the new bytes of a completed read (lines 566-567)
NewBytes(sb, byte_count) == SubSeq(sb, Len(sb) - byte_count + 1, Len(sb))

ScanLine_rejects_other_lines(line) ==
    LET sp == rsplit_once(line, LISTENING_ON)
    IN  IF IsSome(sp) /\ starts_with(Unwrap(sp)[2], WS_SCHEME)
                      /\ contains(Unwrap(sp)[2], DEVTOOLS_BROWSER)
        THEN OkUrl(trim(Unwrap(sp)[2]))
        ELSE LaunchIo("InvalidData", <<>>)

ScanLine_untrimmed(line) ==
    LET sp == rsplit_once(line, LISTENING_ON)
    IN  IF IsSome(sp) /\ starts_with(Unwrap(sp)[2], WS_SCHEME)
                      /\ contains(Unwrap(sp)[2], DEVTOOLS_BROWSER)
        THEN OkUrl(Unwrap(sp)[2])
        ELSE Continue

\* lines 574-578: the scan of a valid line
ScanLine(line) ==
    LET sp == rsplit_once(line, LISTENING_ON)
    IN  IF IsSome(sp) /\ starts_with(Unwrap(sp)[2], WS_SCHEME)
                      /\ contains(Unwrap(sp)[2], DEVTOOLS_BROWSER)
        THEN OkUrl(trim(Unwrap(sp)[2]))
        ELSE Continue

ReadBranch_skips_invalid(sb, byte_count) ==
    IF byte_count = 0
    THEN LaunchIo("UnexpectedEof", sb)
    ELSE IF ~from_utf8_ok(NewBytes(sb, byte_count))
         THEN Continue
         ELSE ScanLine(NewBytes(sb, byte_count))

ReadBranch_drops_bad_line(sb, byte_count) ==
    IF byte_count = 0
    THEN LaunchIo("UnexpectedEof", sb)
    ELSE IF ~from_utf8_ok(NewBytes(sb, byte_count))
         THEN LaunchIo("InvalidData", SubSeq(sb, 1, Len(sb) - byte_count))
         ELSE ScanLine(NewBytes(sb, byte_count))

ReadBranch_eof_ignored(sb, byte_count) ==
    IF byte_count = 0
    THEN Continue
    ELSE IF ~from_utf8_ok(NewBytes(sb, byte_count))
         THEN LaunchIo("InvalidData", sb)
         ELSE ScanLine(NewBytes(sb, byte_count))

\* lines 561-581: the read branch on Ok(byte_count)
ReadBranch(sb, byte_count) ==
    IF byte_count = 0
    THEN LaunchIo("UnexpectedEof", sb)
    ELSE IF ~from_utf8_ok(NewBytes(sb, byte_count))
         THEN LaunchIo("InvalidData", sb)
         ELSE ScanLine(NewBytes(sb, byte_count))

AfterDiscovery_always_connects(res) == "connect"

AfterDiscovery_keeps_racing(res) ==
    IF res.kind = "Url" THEN "connect" ELSE "discover"

\* mod.rs 180 and 185-187: `?` on the result of ws_url_from_output
AfterDiscovery(res) ==
    IF res.kind = "Url" THEN "connect" ELSE "cleanup_try_wait"


(***************************************************************************)
(* async_process::Child.  The possible results of its calls and the state  *)
(* they leave the OS process in: "running", "zombie" (exited, not yet      *)
(* waited for) or "reaped" (exit status collected).                        *)
(***************************************************************************)
IoFailure(c) == {[res |-> "Err", child |-> c]}

\* non-blocking: collects the status of a process that has exited
Child_try_wait(c) ==
    IoFailure(c) \cup
    (CASE c = "running" -> {[res |-> "Ok(None)", child |-> "running"]}
       [] c = "zombie" -> {[res |-> "Ok(Some)", child |-> "reaped"]}
       [] c = "reaped" -> {[res |-> "Ok(Some)", child |-> "reaped"]})

\* forcibly terminates the process; the runtime may already collect it
Child_kill(c) ==
    IoFailure(c) \cup
    (CASE c \in {"running", "zombie"} ->
              {[res |-> "Ok", child |-> "zombie"], [res |-> "Ok", child |-> "reaped"]}
       [] c = "reaped" -> {[res |-> "Ok", child |-> "reaped"]})

\* completes once the process has exited, and collects its status
Child_wait(c) ==
    IoFailure(c) \cup
    (CASE c = "running" -> {}
       [] c \in {"zombie", "reaped"} -> {[res |-> "Ok", child |-> "reaped"]})


(***************************************************************************)
(* The state before anything is constructed.                               *)
(***************************************************************************)
Init ==
    /\ cb = BrowserConfigBuilder_default
    /\ ncalls = 0
    /\ config = None
    /\ cphase = "building"
    /\ builder = ArgsBuilder_new
    /\ contrib = <<>>
    /\ rendered = EmptyBag
    /\ bphase = "open"
    /\ child = "none"
    /\ exit_status = None
    /\ timer_fired = FALSE
    /\ pipe = <<>>
    /\ pipe_open = FALSE
    /\ nwrites = 0
    /\ bufrd = <<>>
    /\ stderr_bytes = <<>>
    /\ read_count = 0
    /\ last_line = None
    /\ outcome = None
    /\ pc = "idle"
    /\ launch_err = None
    /\ cleanup = <<>>
    /\ trace = <<>>
    /\ chan = <<>>
    /\ hstate = "none"
    /\ cpc = "idle"
    /\ hclose = "none"
    /\ browser = None
    /\ dropped = FALSE
    /\ warned = 0
    /\ attach = None
    /\ calls = <<>>
    /\ hpending = {}
    /\ hrecv = <<>>
    /\ hctx = {}
    /\ bctx = <<>>
    /\ pages = <<>>
    /\ cookies = {}
    /\ pbuilder = ChaserProfile_new("Windows")
    /\ pcalls = 0
    /\ profile = None
    /\ doc = NewDocument
    /\ wk = NoWorker

(***************************************************************************)
(* A free-standing ArgsBuilder: ArgsBuilder::new, then any sequence of     *)
(* arg / args, then into_iter.                                             *)
(***************************************************************************)
BuilderPool ==
    { ArgValues("disable-features", <<"TranslateUI">>),
      ArgValues("disable-features", <<"HttpsUpgrades", "HttpsFirstBalancedModeAutoEnable">>),
      ArgKey("headless"),
      ArgValue("headless", "new"),
      ArgKey("no-sandbox") }

BuilderArg(a) ==
    /\ bphase = "open"
    /\ Len(contrib) < MaxInserts
    /\ builder' = ArgsBuilder_arg(builder, a)
    /\ contrib' = Append(contrib, a)
    /\ UNCHANGED <<rendered, bphase>>
    /\ UNCHANGED <<cfgvars, procvars, racevars, launchvars>>
    /\ UNCHANGED sessvars
    /\ UNCHANGED <<handlevars, remotevars, profvars>>

BuilderArgs(as) ==
    /\ bphase = "open"
    /\ Len(contrib) + Len(as) <= MaxInserts
    /\ builder' = ArgsBuilder_args(builder, as)
    /\ contrib' = contrib \o as
    /\ UNCHANGED <<rendered, bphase>>
    /\ UNCHANGED <<cfgvars, procvars, racevars, launchvars>>
    /\ UNCHANGED sessvars
    /\ UNCHANGED <<handlevars, remotevars, profvars>>

BuilderIntoIter ==
    /\ bphase = "open"
    /\ rendered' = ArgsBuilder_into_iter(builder)
    /\ bphase' = "consumed"
    /\ UNCHANGED <<builder, contrib>>
    /\ UNCHANGED <<cfgvars, procvars, racevars, launchvars>>
    /\ UNCHANGED sessvars
    /\ UNCHANGED <<handlevars, remotevars, profvars>>

NextBuilder ==
    \/ \E a \in BuilderPool : BuilderArg(a)
    \/ \E a1 \in BuilderPool, a2 \in BuilderPool : BuilderArgs(<<a1, a2>>)
    \/ BuilderIntoIter

SpecBuilder ==
    Init /\ [][NextBuilder]_vars

(***************************************************************************)
(* BrowserConfigBuilder's methods (config.rs, lines 165-364).  Each takes  *)
(* the builder by value and returns it with one field changed.             *)
(***************************************************************************)
Call(newcb) ==
    /\ cphase = "building"
    /\ ncalls < MaxBuilderCalls
    /\ cb' = newcb
    /\ ncalls' = ncalls + 1
    /\ UNCHANGED <<config, cphase>>
    /\ UNCHANGED <<argvars, procvars, racevars, launchvars>>
    /\ UNCHANGED sessvars
    /\ UNCHANGED <<handlevars, remotevars, profvars>>

Builder_window_size(wh) == Call([cb EXCEPT !.window_size = Some(wh)])
Builder_no_sandbox == Call([cb EXCEPT !.sandbox = FALSE])
Builder_with_head == Call([cb EXCEPT !.headless = "False"])
Builder_new_headless_mode == Call([cb EXCEPT !.headless = "New"])
Builder_headless_mode(mode) == Call([cb EXCEPT !.headless = mode])
Builder_incognito == Call([cb EXCEPT !.incognito = TRUE])
Builder_port(port) == Call([cb EXCEPT !.port = port])
Builder_launch_timeout(timeout) == Call([cb EXCEPT !.launch_timeout = timeout])
Builder_user_data_dir(dir) == Call([cb EXCEPT !.user_data_dir = Some(dir)])
Builder_extension(e) == Call([cb EXCEPT !.extensions = Append(@, e)])
Builder_arg(a) == Call([cb EXCEPT !.args = Append(@, a)])
Builder_disable_default_args == Call([cb EXCEPT !.disable_default_args = TRUE])
Builder_disable_https_first == Call([cb EXCEPT !.disable_https_first = TRUE])
Builder_hide == Call([cb EXCEPT !.hidden = TRUE])

\* build(self), with an executable that is given or can be detected
Builder_build ==
    /\ cphase = "building"
    /\ config' = Some(BrowserConfigBuilder_build(cb))
    /\ cphase' = "built"
    /\ UNCHANGED <<cb, ncalls>>
    /\ UNCHANGED <<argvars, procvars, racevars, launchvars>>
    /\ UNCHANGED sessvars
    /\ UNCHANGED <<handlevars, remotevars, profvars>>

(***************************************************************************)
(* BrowserConfig::launch (config.rs, lines 367-452): fills the ArgsBuilder,*)
(* renders it and spawns the browser with stderr piped.                    *)
(***************************************************************************)
ConfigLaunch ==
    /\ cphase = "built"
    /\ builder' = LaunchBuilder(Unwrap(config))
    /\ rendered' = ArgsBuilder_into_iter(LaunchBuilder(Unwrap(config)))
    /\ bphase' = "consumed"
    /\ \/ /\ cphase' = "launched"
          /\ child' = "running"
          /\ pipe_open' = TRUE
       \/ /\ cphase' = "spawn_failed"
          /\ UNCHANGED <<child, pipe_open>>
    /\ UNCHANGED <<cb, ncalls, config, contrib>>
    /\ UNCHANGED <<exit_status, timer_fired, pipe, nwrites>>
    /\ UNCHANGED <<racevars, launchvars>>
    /\ UNCHANGED sessvars
    /\ UNCHANGED <<handlevars, remotevars, profvars>>

NextConfig ==
    \/ \E wh \in WindowSizes : Builder_window_size(wh)
    \/ Builder_no_sandbox
    \/ Builder_with_head
    \/ Builder_new_headless_mode
    \/ \E mode \in HeadlessModes : Builder_headless_mode(mode)
    \/ Builder_incognito
    \/ \E port \in Ports : Builder_port(port)
    \/ \E t \in LaunchTimeouts : Builder_launch_timeout(t)
    \/ \E dir \in UserDataDirs : Builder_user_data_dir(dir)
    \/ \E e \in ExtensionPaths : Builder_extension(e)
    \/ \E a \in CallerArgs : Builder_arg(a)
    \/ Builder_disable_default_args
    \/ Builder_disable_https_first
    \/ Builder_hide
    \/ Builder_build
    \/ ConfigLaunch

SpecConfig ==
    Init /\ [][NextConfig]_vars

(***************************************************************************)
(* Browser::launch (mod.rs, 154-227) with ws_url_from_output (539-586).    *)
(* It is called with a built BrowserConfig.                                *)
(***************************************************************************)
InitLaunch ==
    /\ cb = BrowserConfigBuilder_default
    /\ ncalls = 0
    /\ config \in { Some(BrowserConfigBuilder_build(
                        [BrowserConfigBuilder_default EXCEPT !.launch_timeout = t])) :
                    t \in {LAUNCH_TIMEOUT} \cup LaunchTimeouts }
    /\ cphase = "built"
    /\ builder = ArgsBuilder_new
    /\ contrib = <<>>
    /\ rendered = EmptyBag
    /\ bphase = "open"
    /\ child = "none"
    /\ exit_status = None
    /\ timer_fired = FALSE
    /\ pipe = <<>>
    /\ pipe_open = FALSE
    /\ nwrites = 0
    /\ bufrd = <<>>
    /\ stderr_bytes = <<>>
    /\ read_count = 0
    /\ last_line = None
    /\ outcome = None
    /\ pc = "idle"
    /\ launch_err = None
    /\ cleanup = <<>>
    /\ trace = <<>>
    /\ chan = <<>>
    /\ hstate = "none"
    /\ cpc = "idle"
    /\ hclose = "none"
    /\ browser = None
    /\ dropped = FALSE
    /\ warned = 0
    /\ attach = None
    /\ calls = <<>>
    /\ hpending = {}
    /\ hrecv = <<>>
    /\ hctx = {}
    /\ bctx = <<>>
    /\ pages = <<>>
    /\ cookies = {}
    /\ pbuilder = ChaserProfile_new("Windows")
    /\ pcalls = 0
    /\ profile = None
    /\ doc = NewDocument
    /\ wk = NoWorker

OtherError(kind, cause) == [kind |-> kind, val |-> <<cause>>, stderr |-> <<>>]

\* line 156: canonicalize_except_snap(..).await? fails; nothing was spawned
LaunchCanonicalizeErr ==
    /\ pc = "idle"
    /\ cphase = "built"
    /\ pc' = "returned_err"
    /\ launch_err' = Some(OtherError("Io", "canonicalize"))
    /\ trace' = Append(trace, "return_err")
    /\ UNCHANGED <<cleanup, chan>>
    /\ UNCHANGED <<cfgvars, argvars, procvars, racevars>>
    /\ UNCHANGED sessvars
    /\ UNCHANGED <<handlevars, remotevars, profvars>>

\* line 159: config.launch()? fails; no child exists
LaunchSpawnErr ==
    /\ pc = "idle"
    /\ cphase = "built"
    /\ builder' = LaunchBuilder(Unwrap(config))
    /\ rendered' = ArgsBuilder_into_iter(LaunchBuilder(Unwrap(config)))
    /\ bphase' = "consumed"
    /\ cphase' = "spawn_failed"
    /\ pc' = "returned_err"
    /\ launch_err' = Some(OtherError("Io", "spawn"))
    /\ trace' = Append(trace, "return_err")
    /\ UNCHANGED <<cb, ncalls, config, contrib, cleanup, chan>>
    /\ UNCHANGED <<procvars, racevars>>
    /\ UNCHANGED sessvars
    /\ UNCHANGED <<handlevars, remotevars, profvars>>

\* lines 159-180 and 544-548: the child is spawned with stderr piped; the
\* timeout future is created (whether a sleep of 0 is ready at its first
\* poll or only after a turn of the timer driver is left to the runtime) and
\* the race starts with an empty stderr_bytes.
LaunchSpawn ==
    /\ pc = "idle"
    /\ cphase = "built"
    /\ builder' = LaunchBuilder(Unwrap(config))
    /\ rendered' = ArgsBuilder_into_iter(LaunchBuilder(Unwrap(config)))
    /\ bphase' = "consumed"
    /\ cphase' = "launched"
    /\ child' = "running"
    /\ pipe_open' = TRUE
    /\ timer_fired' \in (IF Unwrap(config).launch_timeout = 0 THEN BOOLEAN ELSE {FALSE})
    /\ pc' = "discover"
    /\ trace' = Append(trace, "spawn")
    /\ UNCHANGED <<cb, ncalls, config, contrib>>
    /\ UNCHANGED <<exit_status, pipe, nwrites, launch_err, cleanup, chan>>
    /\ UNCHANGED racevars
    /\ UNCHANGED sessvars
    /\ UNCHANGED <<handlevars, remotevars, profvars>>

(***************************************************************************)
(* The environment: the browser process and the clock.  The read end of    *)
(* the stderr pipe exists only while ws_url_from_output runs.              *)
(***************************************************************************)
ChildWrite(chunk) ==
    /\ pc = "discover"
    /\ child = "running"
    /\ pipe_open
    /\ nwrites < MaxWrites
    /\ pipe' = pipe \o chunk
    /\ nwrites' = nwrites + 1
    /\ UNCHANGED <<child, exit_status, timer_fired, pipe_open>>
    /\ UNCHANGED <<cfgvars, argvars, racevars, launchvars>>
    /\ UNCHANGED sessvars
    /\ UNCHANGED <<handlevars, remotevars, profvars>>

ChildCloseStderr ==
    /\ pc = "discover"
    /\ child = "running"
    /\ pipe_open
    /\ pipe_open' = FALSE
    /\ UNCHANGED <<child, exit_status, timer_fired, pipe, nwrites>>
    /\ UNCHANGED <<cfgvars, argvars, racevars, launchvars>>
    /\ UNCHANGED sessvars
    /\ UNCHANGED <<handlevars, remotevars, profvars>>

ChildExit(status) ==
    /\ child = "running"
    /\ child' = "zombie"
    /\ exit_status' = Some(status)
    /\ pipe_open' = FALSE
    /\ UNCHANGED <<timer_fired, pipe, nwrites>>
    /\ UNCHANGED <<cfgvars, argvars, racevars, launchvars>>
    /\ UNCHANGED sessvars
    /\ UNCHANGED <<handlevars, remotevars, profvars>>

TimerFires_never ==
    /\ pc = "discover"
    /\ ~timer_fired
    /\ FALSE
    /\ UNCHANGED vars

TimerFires ==
    /\ pc = "discover"
    /\ ~timer_fired
    /\ timer_fired' = TRUE
    /\ UNCHANGED <<child, exit_status, pipe, pipe_open, nwrites>>
    /\ UNCHANGED <<cfgvars, argvars, racevars, launchvars>>
    /\ UNCHANGED sessvars
    /\ UNCHANGED <<handlevars, remotevars, profvars>>

(***************************************************************************)
(* ws_url_from_output: the select! of lines 550-584.  Each branch whose    *)
(* future is ready may be the one that completes.                          *)
(***************************************************************************)
\* `return` from ws_url_from_output with res, then lines 180-187.  The
\* BufReader and the stderr handle it owns (lines 545-548) are dropped: what
\* the child wrote and the race did not take is gone.
ReturnFromDiscovery(res) ==
    /\ outcome' = Some(res)
    /\ bufrd' = <<>>
    /\ pipe' = <<>>
    /\ read_count' = 0
    /\ pc' = AfterDiscovery(res)
    /\ launch_err' = IF res.kind = "Url" THEN None ELSE Some(res)
    /\ trace' = Append(trace, IF res.kind = "Url" THEN "discovery_ok"
                              ELSE "discovery_err")

\* line 551: the timeout branch
DiscoverTimeout ==
    /\ pc = "discover"
    /\ timer_fired
    /\ ReturnFromDiscovery(LaunchTimeout(stderr_bytes))
    /\ UNCHANGED <<stderr_bytes, last_line, cleanup, chan>>
    /\ UNCHANGED <<child, exit_status, timer_fired, pipe_open, nwrites>>
    /\ UNCHANGED <<cfgvars, argvars>>
    /\ UNCHANGED sessvars
    /\ UNCHANGED <<handlevars, remotevars, profvars>>

ExitBranch_success_status(res, status, sb) ==
    IF res = "Ok" THEN LaunchExit("exit:0", sb) ELSE LaunchIo("wait", sb)

\* lines 553-556: the match on the result of child_process.wait()
ExitBranch(res, status, sb) ==
    IF res = "Ok" THEN LaunchExit(Unwrap(status), sb) ELSE LaunchIo("wait", sb)

\* lines 552-557: the exit branch, child_process.wait() has completed
DiscoverExit ==
    /\ pc = "discover"
    /\ \E w \in Child_wait(child) :
          /\ child' = w.child
          /\ ReturnFromDiscovery(ExitBranch(w.res, exit_status, stderr_bytes))
    /\ UNCHANGED <<stderr_bytes, last_line, cleanup, chan>>
    /\ UNCHANGED <<exit_status, timer_fired, pipe_open, nwrites>>
    /\ UNCHANGED <<cfgvars, argvars>>
    /\ UNCHANGED sessvars
    /\ UNCHANGED <<handlevars, remotevars, profvars>>

\* line 560: the read branch, the read failed
DiscoverReadErr ==
    /\ pc = "discover"
    /\ ReturnFromDiscovery(LaunchIo("read", stderr_bytes))
    /\ UNCHANGED <<stderr_bytes, last_line, cleanup, chan>>
    /\ UNCHANGED <<child, exit_status, timer_fired, pipe_open, nwrites>>
    /\ UNCHANGED <<cfgvars, argvars>>
    /\ UNCHANGED sessvars
    /\ UNCHANGED <<handlevars, remotevars, profvars>>

\* lines 558-581: the read future is polled.  While it is pending the bytes
\* it has taken stay in stderr_bytes; when it completes the read branch
\* either returns or lets the loop start a new read.
DiscoverRead ==
    /\ pc = "discover"
    /\ LET r == PollReadUntil(bufrd, pipe, stderr_bytes, read_count, pipe_open)
       IN  /\ r.ready \/ r.stderr_bytes # stderr_bytes
           /\ stderr_bytes' = r.stderr_bytes
           /\ IF ~r.ready
              THEN /\ bufrd' = r.bufrd
                   /\ pipe' = r.pipe
                   /\ read_count' = r.read
                   /\ UNCHANGED <<last_line, outcome, pc, launch_err, trace>>
              ELSE /\ last_line' = Some(NewBytes(r.stderr_bytes, r.read))
                   /\ LET res == ReadBranch(r.stderr_bytes, r.read)
                      IN  IF res.kind = "continue"
                          THEN /\ bufrd' = r.bufrd
                               /\ pipe' = r.pipe
                               /\ read_count' = 0
                               /\ UNCHANGED <<outcome, pc, launch_err, trace>>
                          ELSE ReturnFromDiscovery(res)
    /\ UNCHANGED <<child, exit_status, timer_fired, pipe_open, nwrites>>
    /\ UNCHANGED <<cleanup, chan>>
    /\ UNCHANGED <<cfgvars, argvars>>
    /\ UNCHANGED sessvars
    /\ UNCHANGED <<handlevars, remotevars, profvars>>

(***************************************************************************)
(* Browser::launch after the race.                                         *)
(***************************************************************************)
\* line 181 fails: Connection::connect(&debug_ws_url).await?
LaunchConnectErr ==
    /\ pc = "connect"
    /\ attach = None
    /\ launch_err' = Some(OtherError("Ws", "connect"))
    /\ pc' = "cleanup_try_wait"
    /\ trace' = trace \o <<"connect", "connect_err">>
    /\ UNCHANGED <<cleanup, chan>>
    /\ UNCHANGED <<cfgvars, argvars, procvars, racevars>>
    /\ UNCHANGED sessvars
    /\ UNCHANGED <<handlevars, remotevars, profvars>>

\* the executables a config may name
ExecutablePaths == {"/usr/bin/chrome", "/usr/bin/chrome-link"}

\* utils::canonicalize_except_snap: the path with its links resolved; a path
\* of a snap is kept
canonicalize_except_snap(path) ==
    IF path = "/usr/bin/chrome-link" THEN "/opt/chrome/chrome" ELSE path

LaunchedConfig_as_built(c) == c

\* lines 154-156: launch owns its config and replaces the executable
LaunchedConfig(c) ==
    [c EXCEPT !.executable = canonicalize_except_snap(c.executable)]

\* Handler::default_browser_context: the browser's own context, without id
DefaultBrowserContext == None

\* lines 181-226: the connection opens; the channel, the Handler and the
\* Browser are created and launch returns Ok.  The handle gets the config
\* of line 156.
LaunchConnectOk ==
    /\ pc = "connect"
    /\ attach = None
    /\ pc' = "returned_ok"
    /\ trace' = trace \o <<"connect", "channel", "handler", "return_ok">>
    /\ hstate' = "polling"
    /\ browser' = Some([config |-> Some(LaunchedConfig(Unwrap(config))),
                        child |-> TRUE,
                        debug_ws_url |-> Unwrap(outcome).val,
                        browser_context |-> DefaultBrowserContext])
    /\ UNCHANGED <<launch_err, cleanup, chan, cpc, hclose>>
    /\ UNCHANGED <<cfgvars, argvars, procvars, racevars>>
    /\ UNCHANGED <<dropped, warned, attach, calls, remotevars, profvars>>

AfterTryWait(res) ==
    IF res = "Ok(Some)" THEN "returned_err" ELSE "cleanup_kill"

AfterKill_without_wait(res) ==
    IF res = "Ok" THEN "returned_err" ELSE "panicked"

AfterKill(res) ==
    IF res = "Ok" THEN "cleanup_wait" ELSE "panicked"

AfterWait(res) ==
    IF res = "Ok" THEN "returned_err" ELSE "panicked"

LeaveCleanup(next) ==
    /\ pc' = next
    /\ trace' = IF next = "returned_err" THEN Append(trace, "return_err")
                ELSE IF next = "panicked" THEN Append(trace, "panic")
                ELSE trace

\* line 189: child.try_wait()
CleanupTryWait ==
    /\ pc = "cleanup_try_wait"
    /\ \E r \in Child_try_wait(child) :
          /\ child' = r.child
          /\ cleanup' = Append(cleanup, <<"try_wait", r.res>>)
          /\ LeaveCleanup(AfterTryWait(r.res))
    /\ UNCHANGED <<exit_status, timer_fired, pipe, pipe_open, nwrites>>
    /\ UNCHANGED <<launch_err, chan>>
    /\ UNCHANGED <<cfgvars, argvars, racevars>>
    /\ UNCHANGED sessvars
    /\ UNCHANGED <<handlevars, remotevars, profvars>>

\* line 193: child.kill().await.expect(..)
CleanupKill ==
    /\ pc = "cleanup_kill"
    /\ \E r \in Child_kill(child) :
          /\ child' = r.child
          /\ exit_status' = IF child = "running" /\ r.res = "Ok"
                            THEN Some(KilledStatus) ELSE exit_status
          /\ pipe_open' = IF r.res = "Ok" THEN FALSE ELSE pipe_open
          /\ cleanup' = Append(cleanup, <<"kill", r.res>>)
          /\ LeaveCleanup(AfterKill(r.res))
    /\ UNCHANGED <<timer_fired, pipe, nwrites>>
    /\ UNCHANGED <<launch_err, chan>>
    /\ UNCHANGED <<cfgvars, argvars, racevars>>
    /\ UNCHANGED sessvars
    /\ UNCHANGED <<handlevars, remotevars, profvars>>

\* lines 194-196: child.wait().await.expect(..); return Err(e)
CleanupWait ==
    /\ pc = "cleanup_wait"
    /\ \E r \in Child_wait(child) :
          /\ child' = r.child
          /\ cleanup' = Append(cleanup, <<"wait", r.res>>)
          /\ LeaveCleanup(AfterWait(r.res))
    /\ UNCHANGED <<exit_status, timer_fired, pipe, pipe_open, nwrites>>
    /\ UNCHANGED <<launch_err, chan>>
    /\ UNCHANGED <<cfgvars, argvars, racevars>>
    /\ UNCHANGED sessvars
    /\ UNCHANGED <<handlevars, remotevars, profvars>>

(***************************************************************************)
(* The session.  The caller owns the Browser and polls the Handler stream  *)
(* (tests/lib.rs, 26-33).  A call on the Browser is awaited to completion; *)
(* calls that take &self may overlap, calls that take &mut self may not.   *)
(***************************************************************************)
CountOf(t, events) == Cardinality({i \in DOMAIN t : t[i] \in events})

\* Result<T>: Ok(val) or Err(txt); val is an id the browser handed out
ResOk(val, txt) == [ok |-> TRUE, val |-> val, txt |-> txt]
ResErr(txt) == [ok |-> FALSE, val |-> 0, txt |-> txt]

\* HandlerMessage (the variants mod.rs sends): the call that sent it and, for
\* a Command, the method with its parameters
Msg(kind, id, method, ctx, cks) ==
    [kind |-> kind, id |-> id, method |-> method, ctx |-> ctx, cookies |-> cks]

\* the variants that carry the sender of a oneshot channel
HasOneshot(m) == m.kind \in {"Command", "CreatePage", "GetPages", "CloseBrowser"}

\* a call that has sent its request and awaits `rx`
AwaitingCall(op, arg) ==
    [op |-> op, arg |-> arg, st |-> "await", rx |-> "pending", reply |-> None,
     ret |-> None]

\* a call that has returned
ReturnedCall(op, arg, res) ==
    [op |-> op, arg |-> arg, st |-> "done", rx |-> "none", reply |-> None,
     ret |-> Some(res)]

MutOps ==
    {"start_incognito_context", "quit_incognito_context", "wait", "try_wait",
     "kill", "get_mut_child"}

InFlight == {i \in DOMAIN calls : calls[i].st # "done"}

\* the Browser exists and is not borrowed mutably
Shared ==
    /\ pc = "returned_ok"
    /\ IsSome(browser)
    /\ ~dropped
    /\ cpc = "idle"
    /\ \A i \in InFlight : calls[i].op \notin MutOps

\* a call that takes &self starts while others are in flight
OverlappingCall ==
    /\ Shared
    /\ Cardinality(InFlight) < MaxInFlight
    /\ Len(calls) < MaxCalls

\* a call starts after the calls before it have returned: one that takes
\* &mut self, or one the caller does not overlap with others
SequentialCall ==
    /\ Shared
    /\ InFlight = {}
    /\ Len(calls) < MaxCalls

SendRequest_twice(op, arg, m) ==
    IF hstate = "ended"
    THEN /\ calls' = Append(calls, ReturnedCall(op, arg, ResErr("ChannelSendError")))
         /\ trace' = Append(trace, "send_err")
         /\ UNCHANGED chan
    ELSE /\ Len(chan) < MaxChan
         /\ chan' = chan \o <<m, m>>
         /\ calls' = Append(calls, AwaitingCall(op, arg))
         /\ trace' = Append(trace, "send")

\* `self.sender.clone().send(m).await?` of the call that will be calls[id]:
\* the message is queued once the channel has room and the call goes on to
\* await its oneshot; the send fails when the Handler is gone
SendRequest(op, arg, m) ==
    IF hstate = "ended"
    THEN /\ calls' = Append(calls, ReturnedCall(op, arg, ResErr("ChannelSendError")))
         /\ trace' = Append(trace, "send_err")
         /\ UNCHANGED chan
    ELSE /\ Len(chan) < MaxChan
         /\ chan' = Append(chan, m)
         /\ calls' = Append(calls, AwaitingCall(op, arg))
         /\ trace' = Append(trace, "send")

NoParams == [ctx |-> None, cookies |-> <<>>]

\* Browser::execute (lines 417-425): a oneshot is created and the command is
\* put on the channel to the handler
BrowserExecute ==
    /\ OverlappingCall
    /\ CountOf([i \in DOMAIN calls |-> calls[i].op], {"execute"}) < MaxCommands
    /\ SendRequest("execute", NoParams,
                   Msg("Command", Len(calls) + 1, "Browser.getVersion", None, <<>>))
    /\ UNCHANGED <<pc, launch_err, cleanup>>
    /\ UNCHANGED <<cfgvars, argvars, procvars, racevars, sessvars>>
    /\ UNCHANGED <<browser, dropped, warned, attach, remotevars, profvars>>

\* Browser::execute (lines 426-427): `rx.await??` completes with the response
\* or with the error of a oneshot whose sender was dropped
ExecuteResult_cancel_is_ok(c) ==
    IF c.rx # "value" THEN ResOk(0, "")
    ELSE IF Unwrap(c.reply).ok THEN ResOk(Unwrap(c.reply).val, "")
    ELSE ResErr("Response")

ExecuteResult(c) ==
    IF c.rx # "value" THEN ResErr("ChannelCanceled")
    ELSE IF Unwrap(c.reply).ok THEN ResOk(Unwrap(c.reply).val, "")
    ELSE ResErr("Response")

ExecuteReturn(id) ==
    /\ id \in InFlight
    /\ calls[id].op \in {"execute", "set_cookies"}
    /\ calls[id].st = "await"
    /\ calls[id].rx \in {"value", "canceled"}
    /\ calls' = [calls EXCEPT ![id].st = "done",
                              ![id].ret = Some(ExecuteResult(calls[id]))]
    /\ UNCHANGED <<cfgvars, argvars, procvars, racevars, launchvars, sessvars>>
    /\ UNCHANGED <<browser, dropped, warned, attach, remotevars, profvars>>

\* Browser::pages (lines 432-436)
BrowserPages ==
    /\ OverlappingCall
    /\ CountOf([i \in DOMAIN calls |-> calls[i].op], {"pages"}) < MaxPagesCalls
    /\ SendRequest("pages", NoParams, Msg("GetPages", Len(calls) + 1, "", None, <<>>))
    /\ UNCHANGED <<pc, launch_err, cleanup>>
    /\ UNCHANGED <<cfgvars, argvars, procvars, racevars, sessvars>>
    /\ UNCHANGED <<browser, dropped, warned, attach, remotevars, profvars>>

\* Browser::pages (line 437): `rx.await?`
PagesReturn(id) ==
    /\ id \in InFlight
    /\ calls[id].op = "pages"
    /\ calls[id].rx \in {"value", "canceled"}
    /\ calls' = [calls EXCEPT ![id].st = "done",
                              ![id].ret = Some(ExecuteResult(calls[id]))]
    /\ UNCHANGED <<cfgvars, argvars, procvars, racevars, launchvars, sessvars>>
    /\ UNCHANGED <<browser, dropped, warned, attach, remotevars, profvars>>

\* the parameters new_page may be called with: none, or a browser context
\* the caller names
ExplicitContext == 1
PageParams == {None, Some(ExplicitContext)}

PageContext_always_active(bc, params) == IF IsSome(bc) THEN bc ELSE params

\* Browser::new_page (lines 391-396): the active context is filled in when
\* the parameters name none
PageContext(bc, params) ==
    IF IsSome(bc) /\ ~IsSome(params) THEN bc ELSE params

\* Browser::new_page (lines 390-401)
BrowserNewPage(params) ==
    /\ SequentialCall
    /\ SendRequest("new_page", [ctx |-> params, cookies |-> <<>>],
                   Msg("CreatePage", Len(calls) + 1, "Target.createTarget",
                       PageContext(Unwrap(browser).browser_context, params), <<>>))
    /\ UNCHANGED <<pc, launch_err, cleanup>>
    /\ UNCHANGED <<cfgvars, argvars, procvars, racevars, sessvars>>
    /\ UNCHANGED <<browser, dropped, warned, attach, remotevars, profvars>>

\* Browser::new_page (line 403): `rx.await?`
NewPageReturn(id) ==
    /\ id \in InFlight
    /\ calls[id].op = "new_page"
    /\ calls[id].rx \in {"value", "canceled"}
    /\ calls' = [calls EXCEPT ![id].st = "done",
                              ![id].ret = Some(ExecuteResult(calls[id]))]
    /\ UNCHANGED <<cfgvars, argvars, procvars, racevars, launchvars, sessvars>>
    /\ UNCHANGED <<browser, dropped, warned, attach, remotevars, profvars>>

\* CookieParam: a name and an optional url
GoodCookie == [name |-> "a", url |-> Some("https://a.test/")]
BareCookie == [name |-> "b", url |-> None]
BadCookie == [name |-> "c", url |-> Some("a.test")]
CookieLists ==
    { <<GoodCookie>>, <<BareCookie, GoodCookie>>, <<BadCookie>>,
      <<GoodCookie, BadCookie>> }

\* page::validate_cookie_url: the url has a scheme and a host
validate_cookie_url(url) == url \in {"https://a.test/"}

\* Browser::set_cookies (lines 500-504): the loop returns the error of the
\* first url that is not valid
CookiesValid_unchecked(cks) == TRUE

CookiesValid_requires_url(cks) ==
    \A i \in DOMAIN cks : IsSome(cks[i].url) /\ validate_cookie_url(Unwrap(cks[i].url))

CookiesValid(cks) ==
    \A i \in DOMAIN cks : IsSome(cks[i].url) => validate_cookie_url(Unwrap(cks[i].url))

\* Browser::set_cookies (lines 499-506)
BrowserSetCookies(cks) ==
    /\ SequentialCall
    /\ IF CookiesValid(cks)
       THEN SendRequest("set_cookies", [ctx |-> None, cookies |-> cks],
                        Msg("Command", Len(calls) + 1, "Storage.setCookies", None, cks))
       ELSE /\ calls' = Append(calls, ReturnedCall("set_cookies",
                                   [ctx |-> None, cookies |-> cks],
                                   ResErr("InvalidCookieUrl")))
            /\ UNCHANGED <<chan, trace>>
    /\ UNCHANGED <<pc, launch_err, cleanup>>
    /\ UNCHANGED <<cfgvars, argvars, procvars, racevars, sessvars>>
    /\ UNCHANGED <<browser, dropped, warned, attach, remotevars, profvars>>

is_incognito_configured_never(b) == FALSE

\* Browser::is_incognito_configured (lines 366-371)
is_incognito_configured(b) ==
    IF IsSome(b.config) THEN Unwrap(b.config).incognito ELSE FALSE

\* BrowserContext::is_incognito: the context has an id
BrowserContext_is_incognito(bc) == IsSome(bc)

is_incognito_both(b) ==
    is_incognito_configured(b) /\ BrowserContext_is_incognito(b.browser_context)

\* Browser::is_incognito (lines 379-381)
is_incognito(b) ==
    is_incognito_configured(b) \/ BrowserContext_is_incognito(b.browser_context)

\* Browser::start_incognito_context (lines 334-338 and 346): unless incognito
\* was configured, a browser context is requested with execute
BrowserStartIncognito ==
    /\ SequentialCall
    /\ IF is_incognito_configured(Unwrap(browser))
       THEN /\ calls' = Append(calls, ReturnedCall("start_incognito_context",
                                                   NoParams, ResOk(0, "")))
            /\ UNCHANGED <<chan, trace>>
       ELSE SendRequest("start_incognito_context", NoParams,
                        Msg("Command", Len(calls) + 1, "Target.createBrowserContext",
                            None, <<>>))
    /\ UNCHANGED <<pc, launch_err, cleanup>>
    /\ UNCHANGED <<cfgvars, argvars, procvars, racevars, sessvars>>
    /\ UNCHANGED <<browser, dropped, warned, attach, remotevars, profvars>>

StartIncognitoCreated_keeps_first(id) ==
    /\ id \in InFlight
    /\ calls[id].op = "start_incognito_context"
    /\ calls[id].st = "await"
    /\ calls[id].rx \in {"value", "canceled"}
    /\ IF ExecuteResult(calls[id]).ok
       THEN /\ browser' = IF IsSome(Unwrap(browser).browser_context) THEN browser
                           ELSE Some([Unwrap(browser) EXCEPT
                                   !.browser_context = Some(ExecuteResult(calls[id]).val)])
            /\ calls' = [calls EXCEPT ![id].st = "notify"]
       ELSE /\ calls' = [calls EXCEPT ![id].st = "done",
                                      ![id].ret = Some(ExecuteResult(calls[id]))]
            /\ UNCHANGED browser
    /\ UNCHANGED <<cfgvars, argvars, procvars, racevars, launchvars, sessvars>>
    /\ UNCHANGED <<dropped, warned, attach, remotevars, profvars>>

\* lines 338-339: `?` on the response; the new context becomes the active one
StartIncognitoCreated(id) ==
    /\ id \in InFlight
    /\ calls[id].op = "start_incognito_context"
    /\ calls[id].st = "await"
    /\ calls[id].rx \in {"value", "canceled"}
    /\ IF ExecuteResult(calls[id]).ok
       THEN /\ browser' = Some([Unwrap(browser) EXCEPT
                                   !.browser_context = Some(ExecuteResult(calls[id]).val)])
            /\ calls' = [calls EXCEPT ![id].st = "notify"]
       ELSE /\ calls' = [calls EXCEPT ![id].st = "done",
                                      ![id].ret = Some(ExecuteResult(calls[id]))]
            /\ UNCHANGED browser
    /\ UNCHANGED <<cfgvars, argvars, procvars, racevars, launchvars, sessvars>>
    /\ UNCHANGED <<dropped, warned, attach, remotevars, profvars>>

\* lines 340-346 and 357-362: the Handler is told about the context with a
\* message that has no oneshot, and the call returns
NotifyContext(id) ==
    /\ id \in InFlight
    /\ calls[id].st = "notify"
    /\ IF hstate = "ended"
       THEN /\ calls' = [calls EXCEPT ![id].st = "done",
                                      ![id].ret = Some(ResErr("ChannelSendError"))]
            /\ trace' = Append(trace, "send_err")
            /\ UNCHANGED chan
       ELSE /\ Len(chan) < MaxChan
            /\ chan' = Append(chan,
                   IF calls[id].op = "start_incognito_context"
                   THEN Msg("InsertContext", id, "", Unwrap(browser).browser_context, <<>>)
                   ELSE Msg("DisposeContext", id, "", calls[id].arg.ctx, <<>>))
            /\ calls' = [calls EXCEPT ![id].st = "done",
                                      ![id].ret = Some(ResOk(0, ""))]
            /\ trace' = Append(trace, "send")
    /\ UNCHANGED <<pc, launch_err, cleanup>>
    /\ UNCHANGED <<cfgvars, argvars, procvars, racevars, sessvars>>
    /\ UNCHANGED <<browser, dropped, warned, attach, remotevars, profvars>>

\* BrowserContext::take: the id leaves the context
BrowserContext_take(bc) == [taken |-> bc, left |-> None]

BrowserQuitIncognito_keeps_context ==
    /\ SequentialCall
    /\ LET t == BrowserContext_take(Unwrap(browser).browser_context)
       IN  /\ UNCHANGED browser
           /\ IF IsSome(t.taken)
              THEN SendRequest("quit_incognito_context",
                               [ctx |-> t.taken, cookies |-> <<>>],
                               Msg("Command", Len(calls) + 1,
                                   "Target.disposeBrowserContext", t.taken, <<>>))
              ELSE /\ calls' = Append(calls, ReturnedCall("quit_incognito_context",
                                                          NoParams, ResOk(0, "")))
                   /\ UNCHANGED <<chan, trace>>
    /\ UNCHANGED <<pc, launch_err, cleanup>>
    /\ UNCHANGED <<cfgvars, argvars, procvars, racevars, sessvars>>
    /\ UNCHANGED <<dropped, warned, attach, remotevars, profvars>>

\* Browser::quit_incognito_context (lines 355-356 and 362): the active
\* context is taken out of the handle and its disposal is requested
BrowserQuitIncognito ==
    /\ SequentialCall
    /\ LET t == BrowserContext_take(Unwrap(browser).browser_context)
       IN  /\ browser' = Some([Unwrap(browser) EXCEPT !.browser_context = t.left])
           /\ IF IsSome(t.taken)
              THEN SendRequest("quit_incognito_context",
                               [ctx |-> t.taken, cookies |-> <<>>],
                               Msg("Command", Len(calls) + 1,
                                   "Target.disposeBrowserContext", t.taken, <<>>))
              ELSE /\ calls' = Append(calls, ReturnedCall("quit_incognito_context",
                                                          NoParams, ResOk(0, "")))
                   /\ UNCHANGED <<chan, trace>>
    /\ UNCHANGED <<pc, launch_err, cleanup>>
    /\ UNCHANGED <<cfgvars, argvars, procvars, racevars, sessvars>>
    /\ UNCHANGED <<dropped, warned, attach, remotevars, profvars>>

\* line 356: `?` on the response of dispose_browser_context
QuitIncognitoDisposed(id) ==
    /\ id \in InFlight
    /\ calls[id].op = "quit_incognito_context"
    /\ calls[id].st = "await"
    /\ calls[id].rx \in {"value", "canceled"}
    /\ calls' = IF ExecuteResult(calls[id]).ok
                THEN [calls EXCEPT ![id].st = "notify"]
                ELSE [calls EXCEPT ![id].st = "done",
                                   ![id].ret = Some(ExecuteResult(calls[id]))]
    /\ UNCHANGED <<cfgvars, argvars, procvars, racevars, launchvars, sessvars>>
    /\ UNCHANGED <<browser, dropped, warned, attach, remotevars, profvars>>

BrowserClose_without_request ==
    /\ Shared
    /\ InFlight = {}
    /\ CountOf(trace, {"close_call"}) < MaxCloseCalls
    /\ trace' = trace \o <<"close_call", "close_ok">>
    /\ UNCHANGED <<pc, launch_err, cleanup, chan>>
    /\ UNCHANGED <<cfgvars, argvars, procvars, racevars, sessvars>>
    /\ UNCHANGED <<handlevars, remotevars, profvars>>

\* Browser::close, lines 256-261: CloseBrowser(tx) is sent to the handler;
\* `?` returns the error of a failed send
BrowserClose ==
    /\ Shared
    /\ InFlight = {}
    /\ CountOf(trace, {"close_call"}) < MaxCloseCalls
    /\ IF hstate = "ended"
       THEN /\ trace' = trace \o <<"close_call", "close_err">>
            /\ UNCHANGED <<chan, cpc>>
       ELSE /\ Len(chan) < MaxChan
            /\ chan' = Append(chan, Msg("CloseBrowser", 0, "Browser.close", None, <<>>))
            /\ cpc' = "awaiting"
            /\ trace' = trace \o <<"close_call", "send_close">>
    /\ UNCHANGED <<pc, launch_err, cleanup, hstate, hclose>>
    /\ UNCHANGED <<cfgvars, argvars, procvars, racevars>>
    /\ UNCHANGED <<handlevars, remotevars, profvars>>

\* Browser::close, line 263: rx.await? completes with the reply, or with an
\* error when the sender of the oneshot was dropped
BrowserCloseReturn ==
    /\ pc = "returned_ok"
    /\ cpc = "awaiting"
    /\ hclose \in {"replied", "dropped"}
    /\ cpc' = "idle"
    /\ hclose' = "none"
    /\ trace' = Append(trace, IF hclose = "replied" THEN "close_ok" ELSE "close_err")
    /\ UNCHANGED <<pc, launch_err, cleanup, chan, hstate>>
    /\ UNCHANGED <<cfgvars, argvars, procvars, racevars>>
    /\ UNCHANGED <<handlevars, remotevars, profvars>>

(***************************************************************************)
(* The calls on the spawned process (lines 274-327) and Drop (511-528).    *)
(* Each yields the set of its possible results with the state the process  *)
(* is left in; `owns` is self.child.is_some().                             *)
(***************************************************************************)
\* Browser::wait (lines 274-280)
Browser_wait(owns, c) ==
    IF owns
    THEN { [ret |-> IF w.res = "Ok" THEN "Ok(Some)" ELSE "Err", child |-> w.child] :
           w \in Child_wait(c) }
    ELSE { [ret |-> "Ok(None)", child |-> c] }

\* Browser::try_wait (lines 290-296)
Browser_try_wait(owns, c) ==
    IF owns
    THEN { [ret |-> r.res, child |-> r.child] : r \in Child_try_wait(c) }
    ELSE { [ret |-> "Ok(None)", child |-> c] }

Browser_kill_unowned(owns, c) ==
    { [ret |-> IF r.res = "Ok" THEN "Some(Ok)" ELSE "Some(Err)", child |-> r.child] :
      r \in Child_kill(c) }

\* Browser::kill (lines 322-327)
Browser_kill(owns, c) ==
    IF owns
    THEN { [ret |-> IF r.res = "Ok" THEN "Some(Ok)" ELSE "Some(Err)", child |-> r.child] :
           r \in Child_kill(c) }
    ELSE { [ret |-> "None", child |-> c] }

\* Browser::get_mut_child (lines 308-310)
Browser_get_mut_child(owns, c) ==
    { [ret |-> IF owns THEN "Some" ELSE "None", child |-> c] }

ProcessOps == {"wait", "try_wait", "kill", "get_mut_child"}

\* a call on the process returns r
ProcessCall(op, r) ==
    /\ CountOf([i \in DOMAIN calls |-> calls[i].op], ProcessOps) < MaxProcessCalls
    /\ child' = r.child
    /\ calls' = Append(calls, ReturnedCall(op, NoParams, ResOk(0, r.ret)))
    /\ UNCHANGED <<timer_fired, pipe, nwrites>>
    /\ UNCHANGED <<cfgvars, argvars, racevars, launchvars, sessvars>>
    /\ UNCHANGED <<browser, dropped, warned, attach, remotevars, profvars>>

BrowserWait ==
    /\ SequentialCall
    /\ \E r \in Browser_wait(Unwrap(browser).child, child) :
          /\ ProcessCall("wait", r)
          /\ UNCHANGED <<exit_status, pipe_open>>

BrowserTryWait ==
    /\ SequentialCall
    /\ \E r \in Browser_try_wait(Unwrap(browser).child, child) :
          /\ ProcessCall("try_wait", r)
          /\ UNCHANGED <<exit_status, pipe_open>>

BrowserKill ==
    /\ SequentialCall
    /\ \E r \in Browser_kill(Unwrap(browser).child, child) :
          /\ ProcessCall("kill", r)
          /\ exit_status' = IF child = "running" /\ r.child # "running"
                            THEN Some(KilledStatus) ELSE exit_status
          /\ pipe_open' = IF r.child # "running" THEN FALSE ELSE pipe_open

BrowserGetMutChild ==
    /\ SequentialCall
    /\ \E r \in Browser_get_mut_child(Unwrap(browser).child, child) :
          /\ ProcessCall("get_mut_child", r)
          /\ UNCHANGED <<exit_status, pipe_open>>

\* Drop for Browser, lines 513-526: the outcomes of the one try_wait, each
\* with whether the warning is logged
Drop_warns_always(owns, c) ==
    IF owns
    THEN { [ret |-> r.res, child |-> r.child, warn |-> TRUE] : r \in Child_try_wait(c) }
    ELSE { [ret |-> "None", child |-> c, warn |-> TRUE] }

Drop_waits(owns, c) ==
    IF owns
    THEN { [ret |-> IF w.res = "Ok" THEN "Ok(Some)" ELSE "Err", child |-> w.child,
            warn |-> FALSE] : w \in Child_wait(c) }
    ELSE { [ret |-> "None", child |-> c, warn |-> FALSE] }

Drop_try_wait(owns, c) ==
    IF owns
    THEN { [ret |-> r.res, child |-> r.child, warn |-> r.res # "Ok(Some)"] :
           r \in Child_try_wait(c) }
    ELSE { [ret |-> "None", child |-> c, warn |-> FALSE] }

\* the Child of the handle is dropped with it: a process that still runs is
\* killed (kill_on_drop) and left for the runtime to reap
Child_drop(owns, c) == IF owns /\ c = "running" THEN "zombie" ELSE c

\* Drop for Browser (lines 511-528), when no call borrows the Browser
BrowserDrop ==
    /\ Shared
    /\ InFlight = {}
    /\ \E r \in Drop_try_wait(Unwrap(browser).child, child) :
          /\ dropped' = TRUE
          /\ warned' = warned + (IF r.warn THEN 1 ELSE 0)
          /\ calls' = Append(calls, ReturnedCall("drop", NoParams, ResOk(0, r.ret)))
          /\ child' = Child_drop(Unwrap(browser).child, r.child)
          /\ exit_status' = IF Child_drop(Unwrap(browser).child, r.child) # r.child
                            THEN Some(KilledStatus) ELSE exit_status
          /\ pipe_open' = IF Unwrap(browser).child THEN FALSE ELSE pipe_open
    /\ UNCHANGED <<timer_fired, pipe, nwrites>>
    /\ UNCHANGED <<cfgvars, argvars, racevars, launchvars, sessvars>>
    /\ UNCHANGED <<browser, attach, remotevars, profvars>>

\* the runtime reaps, at a time of its choosing, a process whose Child was
\* dropped
RuntimeReaps ==
    /\ dropped
    /\ IsSome(browser) /\ Unwrap(browser).child
    /\ child = "zombie"
    /\ child' = "reaped"
    /\ UNCHANGED <<exit_status, timer_fired, pipe, pipe_open, nwrites>>
    /\ UNCHANGED <<cfgvars, argvars, racevars, launchvars, sessvars>>
    /\ UNCHANGED <<handlevars, remotevars, profvars>>

(***************************************************************************)
(* Browser::connect_with_config (lines 87-144): attaching to a browser     *)
(* that already runs.  Text is a sequence of characters.                   *)
(***************************************************************************)
\* the scheme prefix of line 93
HTTP ==
    <<"h","t","t","p">>

\* the endpoint of lines 96-102
JSON_VERSION ==
    <<"/","j","s","o","n","/","v","e","r","s","i","o","n">>

\* the address of line 122
LOOPBACK ==
    <<"1","2","7",".","0",".","0",".","1">>

\* req.remote_addr().ip().to_string(): the address that answered the probe
PeerIp ==
    <<"1","0",".","0",".","0",".","5">>

\* "ws://10.0.0.5:9222/devtools/browser/x"
WsUrl ==
    <<"w","s",":","/","/","1","0",".","0",".","0",".","5",":","9","2",
      "2","2","/","d","e","v","t","o","o","l","s","/","b","r","o","w",
      "s","e","r","/","x">>

\* "http://10.0.0.5:9222"
HttpUrl ==
    <<"h","t","t","p",":","/","/","1","0",".","0",".","0",".","5",":",
      "9","2","2","2">>

\* "http://10.0.0.5:9222/json/version"
HttpVersionUrl ==
    <<"h","t","t","p",":","/","/","1","0",".","0",".","0",".","5",":",
      "9","2","2","2","/","j","s","o","n","/","v","e","r","s","i","o",
      "n">>

\* the URLs connect is called with
AttachUrls == {WsUrl, HttpUrl, HttpVersionUrl}

\* "ws://127.0.0.1:9222/devtools/browser/x"
FieldV4 ==
    <<"w","s",":","/","/","1","2","7",".","0",".","0",".","1",":","9",
      "2","2","2","/","d","e","v","t","o","o","l","s","/","b","r","o",
      "w","s","e","r","/","x">>

\* "ws://127.0.0.1:9222/devtools/127.0.0.1"
FieldV4Twice ==
    <<"w","s",":","/","/","1","2","7",".","0",".","0",".","1",":","9",
      "2","2","2","/","d","e","v","t","o","o","l","s","/","1","2","7",
      ".","0",".","0",".","1">>

\* "ws://localhost:9222/devtools/browser/x"
FieldLocalhost ==
    <<"w","s",":","/","/","l","o","c","a","l","h","o","s","t",":","9",
      "2","2","2","/","d","e","v","t","o","o","l","s","/","b","r","o",
      "w","s","e","r","/","x">>

\* "ws://[::1]:9222/devtools/browser/x"
FieldV6 ==
    <<"w","s",":","/","/","[",":",":","1","]",":","9","2","2","2","/",
      "d","e","v","t","o","o","l","s","/","b","r","o","w","s","e","r",
      "/","x">>

\* "ws://10.0.0.5:9222/devtools/browser/x"
FieldPeer ==
    <<"w","s",":","/","/","1","0",".","0",".","0",".","5",":","9","2",
      "2","2","/","d","e","v","t","o","o","l","s","/","b","r","o","w",
      "s","e","r","/","x">>

\* the values of webSocketDebuggerUrl in the answer; empty when the body
\* has no such field or cannot be parsed (unwrap_or_default, lines 115-116)
DebuggerUrlFields ==
    {FieldV4, FieldV4Twice, FieldLocalhost, FieldV6, FieldPeer, <<>>}

\* the outcomes of the GET: an error, or an answer from PeerIp
ProbeResponses ==
    {[ok |-> FALSE, ip |-> <<>>, ws |-> <<>>]} \cup
    {[ok |-> TRUE, ip |-> PeerIp, ws |-> f] : f \in DebuggerUrlFields}

\* str::ends_with
ends_with(s, p) == Len(p) <= Len(s) /\ SubSeq(s, Len(s) - Len(p) + 1, Len(s)) = p

\* lines 96-106: the URL the GET is sent to
ProbeEndpoint(url) ==
    IF ends_with(url, JSON_VERSION) \/ ends_with(url, JSON_VERSION \o <<"/">>)
    THEN url
    ELSE url \o (IF ends_with(url, <<"/">>) THEN <<>> ELSE <<"/">>)
             \o Tail(JSON_VERSION)

RECURSIVE Replace_first_only(_, _, _)
Replace_first_only(s, from, to) ==
    IF Len(s) < Len(from) THEN s
    ELSE IF starts_with(s, from)
         THEN to \o SubSeq(s, Len(from) + 1, Len(s))
         ELSE <<Head(s)>> \o Replace_first_only(Tail(s), from, to)

\* str::replace: every match, found from left to right, is replaced
RECURSIVE Replace(_, _, _)
Replace(s, from, to) ==
    IF Len(s) < Len(from) THEN s
    ELSE IF starts_with(s, from)
         THEN to \o Replace(SubSeq(s, Len(from) + 1, Len(s)), from, to)
         ELSE <<Head(s)>> \o Replace(Tail(s), from, to)

\* lines 118-123: the URL to open after an answer to the probe
ProbeTarget(url, resp) ==
    IF resp.ws # <<>> THEN Replace(resp.ws, LOOPBACK, resp.ip) ELSE url

\* lines 91-127: the URL is taken as it is, or the version endpoint is asked
ConnectResolve ==
    /\ pc = "idle"
    /\ IsSome(attach)
    /\ LET url == Unwrap(attach).url
       IN  IF ~starts_with(url, HTTP)
           THEN /\ attach' = Some([Unwrap(attach) EXCEPT !.target = url])
                /\ pc' = "connect"
                /\ UNCHANGED <<launch_err, trace>>
           ELSE \E resp \in ProbeResponses :
                   IF resp.ok
                   THEN /\ attach' = Some([url |-> url,
                                           get |-> Some(ProbeEndpoint(url)),
                                           resp |-> Some(resp),
                                           target |-> ProbeTarget(url, resp)])
                        /\ pc' = "connect"
                        /\ trace' = Append(trace, "probe")
                        /\ UNCHANGED launch_err
                   ELSE /\ attach' = Some([Unwrap(attach) EXCEPT
                                             !.get = Some(ProbeEndpoint(url)),
                                             !.resp = Some(resp)])
                        /\ pc' = "returned_err"
                        /\ launch_err' = Some(OtherError("NoResponse", "probe"))
                        /\ trace' = trace \o <<"probe", "return_err">>
    /\ UNCHANGED <<cleanup, chan>>
    /\ UNCHANGED <<cfgvars, argvars, procvars, racevars, sessvars>>
    /\ UNCHANGED <<browser, dropped, warned, calls, remotevars, profvars>>

\* line 129 fails: Connection::connect(&debug_ws_url).await?
AttachConnectErr ==
    /\ pc = "connect"
    /\ IsSome(attach)
    /\ launch_err' = Some(OtherError("Ws", "connect"))
    /\ pc' = "returned_err"
    /\ trace' = trace \o <<"connect", "connect_err", "return_err">>
    /\ UNCHANGED <<cleanup, chan>>
    /\ UNCHANGED <<cfgvars, argvars, procvars, racevars, sessvars>>
    /\ UNCHANGED <<handlevars, remotevars, profvars>>

\* lines 129-143: the connection opens; the channel, the Handler and a
\* Browser without config and child are created
AttachConnectOk ==
    /\ pc = "connect"
    /\ IsSome(attach)
    /\ browser' = Some([config |-> None, child |-> FALSE,
                        debug_ws_url |-> Unwrap(attach).target,
                        browser_context |-> DefaultBrowserContext])
    /\ hstate' = "polling"
    /\ pc' = "returned_ok"
    /\ trace' = trace \o <<"connect", "channel", "handler", "return_ok">>
    /\ UNCHANGED <<launch_err, cleanup, chan, cpc, hclose>>
    /\ UNCHANGED <<cfgvars, argvars, procvars, racevars>>
    /\ UNCHANGED <<dropped, warned, attach, calls, remotevars, profvars>>

(***************************************************************************)
(* The Handler the caller polls, and the browser behind the connection.    *)
(***************************************************************************)
\* the call whose oneshot receives the response to request m
ReplySlot(m) == m.id

\* the browser carries out a request: its response and its state afterwards
BrowserResponse(m) ==
    CASE m.method = "Target.createBrowserContext" ->
            [ok |-> TRUE, val |-> Len(bctx) + 1,
             bctx |-> Append(bctx, TRUE), pages |-> pages, cookies |-> cookies]
      [] m.method = "Target.disposeBrowserContext" ->
            IF Unwrap(m.ctx) \in DOMAIN bctx /\ bctx[Unwrap(m.ctx)]
            THEN [ok |-> TRUE, val |-> 0,
                  bctx |-> [bctx EXCEPT ![Unwrap(m.ctx)] = FALSE],
                  pages |-> [i \in DOMAIN pages |->
                                IF pages[i].ctx = m.ctx
                                THEN [pages[i] EXCEPT !.open = FALSE] ELSE pages[i]],
                  cookies |-> cookies]
            ELSE [ok |-> FALSE, val |-> 0, bctx |-> bctx, pages |-> pages,
                  cookies |-> cookies]
      [] m.method = "Target.createTarget" ->
            IF IsSome(m.ctx) => (Unwrap(m.ctx) \in DOMAIN bctx /\ bctx[Unwrap(m.ctx)])
            THEN [ok |-> TRUE, val |-> Len(pages) + 1, bctx |-> bctx,
                  pages |-> Append(pages, [ctx |-> m.ctx, open |-> TRUE, by |-> m.id]),
                  cookies |-> cookies]
            ELSE [ok |-> FALSE, val |-> 0, bctx |-> bctx, pages |-> pages,
                  cookies |-> cookies]
      [] m.method = "Storage.setCookies" ->
            [ok |-> TRUE, val |-> 0, bctx |-> bctx, pages |-> pages,
             cookies |-> cookies \cup {m.cookies[i].name : i \in DOMAIN m.cookies}]
      [] OTHER ->
            [ok |-> TRUE, val |-> 0, bctx |-> bctx, pages |-> pages,
             cookies |-> cookies]

\* Handler: takes the next message of the channel.  A request is passed to
\* the browser and its oneshot kept (for CloseBrowser, the close command);
\* InsertContext and DisposeContext change the contexts the Handler tracks.
HandlerRecv ==
    /\ hstate = "polling"
    /\ chan # <<>>
    /\ chan' = Tail(chan)
    /\ hrecv' = Append(hrecv, Head(chan))
    /\ LET m == Head(chan)
       IN  /\ IF m.kind = "CloseBrowser"
              THEN /\ hclose' = "held"
                   /\ trace' = Append(trace, "handler_close")
              ELSE UNCHANGED <<hclose, trace>>
           /\ hpending' = IF m.kind \in {"Command", "CreatePage", "GetPages"}
                          THEN hpending \cup {m} ELSE hpending
           /\ hctx' = CASE m.kind = "InsertContext" -> hctx \cup {Unwrap(m.ctx)}
                        [] m.kind = "DisposeContext" -> hctx \ {Unwrap(m.ctx)}
                        [] OTHER -> hctx
    /\ UNCHANGED <<pc, launch_err, cleanup, hstate, cpc>>
    /\ UNCHANGED <<cfgvars, argvars, procvars, racevars>>
    /\ UNCHANGED <<handlevars, bctx, pages, cookies, profvars>>

\* Handler: the browser's response to a request is passed to the oneshot of
\* the call that made it
HandlerReply(m) ==
    /\ hstate = "polling"
    /\ child = "running"
    /\ m \in hpending
    /\ hpending' = hpending \ {m}
    /\ LET r == BrowserResponse(m)
       IN  /\ bctx' = r.bctx
           /\ pages' = r.pages
           /\ cookies' = r.cookies
           /\ calls' = [calls EXCEPT ![ReplySlot(m)].rx = "value",
                                     ![ReplySlot(m)].reply =
                                         Some([for |-> m.id, ok |-> r.ok, val |-> r.val])]
    /\ UNCHANGED <<hrecv, hctx, profvars>>
    /\ UNCHANGED <<cfgvars, argvars, procvars, racevars, launchvars, sessvars>>
    /\ UNCHANGED <<browser, dropped, warned, attach>>

\* Handler: the browser's response to the close command is passed on
HandlerReplyClose ==
    /\ hstate = "polling"
    /\ hclose = "held"
    /\ hclose' = "replied"
    /\ UNCHANGED <<hstate, cpc>>
    /\ UNCHANGED <<cfgvars, argvars, procvars, racevars, launchvars>>
    /\ UNCHANGED <<handlevars, remotevars, profvars>>

\* the oneshots that are dropped with the messages ms
Canceled(cs, ms) ==
    [i \in DOMAIN cs |->
        IF cs[i].rx = "pending" /\ \E m \in ms : HasOneshot(m) /\ m.id = i
        THEN [cs[i] EXCEPT !.rx = "canceled"] ELSE cs[i]]

\* Handler: the connection is lost with the browser process; the stream
\* yields an error and the caller's loop ends (tests/lib.rs, 27-32).  The
\* messages and oneshots the Handler holds are dropped.
HandlerEnds ==
    /\ hstate = "polling"
    /\ child # "running"
    /\ hstate' = "ended"
    /\ chan' = <<>>
    /\ hpending' = {}
    /\ hclose' = IF hclose = "held" \/ \E i \in DOMAIN chan : chan[i].kind = "CloseBrowser"
                 THEN "dropped" ELSE hclose
    /\ calls' = Canceled(calls, hpending \cup {chan[i] : i \in DOMAIN chan})
    /\ trace' = Append(trace, "handler_end")
    /\ UNCHANGED <<pc, launch_err, cleanup, cpc>>
    /\ UNCHANGED <<cfgvars, argvars, procvars, racevars>>
    /\ UNCHANGED <<browser, dropped, warned, attach>>
    /\ UNCHANGED <<hrecv, hctx, bctx, pages, cookies, profvars>>

Next ==
    \/ LaunchCanonicalizeErr
    \/ LaunchSpawnErr
    \/ LaunchSpawn
    \/ \E chunk \in StderrChunks : ChildWrite(chunk)
    \/ ChildCloseStderr
    \/ \E status \in ExitStatuses : ChildExit(status)
    \/ TimerFires
    \/ DiscoverTimeout
    \/ DiscoverExit
    \/ DiscoverReadErr
    \/ DiscoverRead
    \/ LaunchConnectErr
    \/ LaunchConnectOk
    \/ CleanupTryWait
    \/ CleanupKill
    \/ CleanupWait
    \/ BrowserExecute
    \/ \E id \in DOMAIN calls : ExecuteReturn(id)
    \/ BrowserClose
    \/ BrowserCloseReturn
    \/ HandlerRecv
    \/ \E m \in hpending : HandlerReply(m)
    \/ HandlerReplyClose
    \/ HandlerEnds

Spec == InitLaunch /\ [][Next]_vars

\* A timer of finite duration fires, and a select! that is polled with the
\* timeout branch ready completes (with that branch or with another one).
SpecLive ==
    /\ InitLaunch
    /\ [][Next]_vars
    /\ WF_vars(TimerFires)
    /\ WF_vars(DiscoverTimeout)

(***************************************************************************)
(* A Browser from its creation, by launch or by connect, to its drop: the  *)
(* child announces its URL or exits, and the caller closes, waits, kills   *)
(* and drops.                                                              *)
(***************************************************************************)
InitHandle ==
    /\ cb = BrowserConfigBuilder_default
    /\ ncalls = 0
    /\ \/ /\ config \in { Some(BrowserConfigBuilder_build(
                              [BrowserConfigBuilder_default EXCEPT
                                  !.executable = Some(e)])) :
                          e \in ExecutablePaths }
          /\ cphase = "built"
          /\ attach = None
          /\ child = "none"
       \/ /\ config = None
          /\ cphase = "building"
          /\ attach = Some([url |-> WsUrl, get |-> None, resp |-> None,
                            target |-> <<>>])
          /\ child = "running"
    /\ builder = ArgsBuilder_new
    /\ contrib = <<>>
    /\ rendered = EmptyBag
    /\ bphase = "open"
    /\ exit_status = None
    /\ timer_fired = FALSE
    /\ pipe = <<>>
    /\ pipe_open = FALSE
    /\ nwrites = 0
    /\ bufrd = <<>>
    /\ stderr_bytes = <<>>
    /\ read_count = 0
    /\ last_line = None
    /\ outcome = None
    /\ pc = "idle"
    /\ launch_err = None
    /\ cleanup = <<>>
    /\ trace = <<>>
    /\ chan = <<>>
    /\ hstate = "none"
    /\ cpc = "idle"
    /\ hclose = "none"
    /\ browser = None
    /\ dropped = FALSE
    /\ warned = 0
    /\ calls = <<>>
    /\ hpending = {}
    /\ hrecv = <<>>
    /\ hctx = {}
    /\ bctx = <<>>
    /\ pages = <<>>
    /\ cookies = {}
    /\ pbuilder = ChaserProfile_new("Windows")
    /\ pcalls = 0
    /\ profile = None
    /\ doc = NewDocument
    /\ wk = NoWorker

NextHandle ==
    \/ LaunchSpawn
    \/ \E chunk \in {AnnounceLine} : ChildWrite(chunk)
    \/ \E status \in ExitStatuses : ChildExit(status)
    \/ DiscoverExit
    \/ DiscoverRead
    \/ LaunchConnectErr
    \/ LaunchConnectOk
    \/ CleanupTryWait
    \/ CleanupKill
    \/ CleanupWait
    \/ ConnectResolve
    \/ AttachConnectErr
    \/ AttachConnectOk
    \/ BrowserClose
    \/ BrowserCloseReturn
    \/ BrowserWait
    \/ BrowserTryWait
    \/ BrowserKill
    \/ BrowserGetMutChild
    \/ BrowserDrop
    \/ RuntimeReaps
    \/ HandlerRecv
    \/ HandlerReplyClose
    \/ HandlerEnds

SpecHandle == InitHandle /\ [][NextHandle]_vars

(***************************************************************************)
(* Attaching: connect is called with a WebSocket URL or with the http URL  *)
(* of a browser, whose version is then asked for.                          *)
(***************************************************************************)
InitConnect ==
    /\ cb = BrowserConfigBuilder_default
    /\ ncalls = 0
    /\ config = None
    /\ cphase = "building"
    /\ attach \in { Some([url |-> u, get |-> None, resp |-> None,
                          target |-> <<>>]) : u \in AttachUrls }
    /\ child = "running"
    /\ builder = ArgsBuilder_new
    /\ contrib = <<>>
    /\ rendered = EmptyBag
    /\ bphase = "open"
    /\ exit_status = None
    /\ timer_fired = FALSE
    /\ pipe = <<>>
    /\ pipe_open = FALSE
    /\ nwrites = 0
    /\ bufrd = <<>>
    /\ stderr_bytes = <<>>
    /\ read_count = 0
    /\ last_line = None
    /\ outcome = None
    /\ pc = "idle"
    /\ launch_err = None
    /\ cleanup = <<>>
    /\ trace = <<>>
    /\ chan = <<>>
    /\ hstate = "none"
    /\ cpc = "idle"
    /\ hclose = "none"
    /\ browser = None
    /\ dropped = FALSE
    /\ warned = 0
    /\ calls = <<>>
    /\ hpending = {}
    /\ hrecv = <<>>
    /\ hctx = {}
    /\ bctx = <<>>
    /\ pages = <<>>
    /\ cookies = {}
    /\ pbuilder = ChaserProfile_new("Windows")
    /\ pcalls = 0
    /\ profile = None
    /\ doc = NewDocument
    /\ wk = NoWorker

NextConnect ==
    \/ ConnectResolve
    \/ AttachConnectErr
    \/ AttachConnectOk
    \/ \E status \in ExitStatuses : ChildExit(status)
    \/ BrowserExecute
    \/ \E id \in DOMAIN calls : ExecuteReturn(id)
    \/ BrowserPages
    \/ \E id \in DOMAIN calls : PagesReturn(id)
    \/ HandlerRecv
    \/ \E m \in hpending : HandlerReply(m)
    \/ HandlerEnds

SpecConnect == InitConnect /\ [][NextConnect]_vars

\* A call that awaits its oneshot is resumed once the receiver is ready
\* (with a value, or canceled), and then returns.
SpecConnectLive ==
    /\ InitConnect
    /\ [][NextConnect]_vars
    /\ \A id \in 1..MaxCalls : WF_vars(ExecuteReturn(id) \/ PagesReturn(id))

(***************************************************************************)
(* The commands of a session: a Browser is launched, with or without       *)
(* incognito, or attached, and the caller creates pages, sets cookies and  *)
(* starts and quits incognito contexts while the Handler is polled.        *)
(***************************************************************************)
\* a browser that is attached to may already hold a browser context
InitSession ==
    /\ cb = BrowserConfigBuilder_default
    /\ ncalls = 0
    /\ \/ /\ config \in { Some(BrowserConfigBuilder_build(
                              [BrowserConfigBuilder_default EXCEPT
                                  !.incognito = i])) : i \in BOOLEAN }
          /\ cphase = "built"
          /\ attach = None
          /\ child = "none"
          /\ bctx = <<>>
       \/ /\ config = None
          /\ cphase = "building"
          /\ attach = Some([url |-> WsUrl, get |-> None, resp |-> None,
                            target |-> <<>>])
          /\ child = "running"
          /\ bctx \in {<<>>, <<TRUE>>}
    /\ builder = ArgsBuilder_new
    /\ contrib = <<>>
    /\ rendered = EmptyBag
    /\ bphase = "open"
    /\ exit_status = None
    /\ timer_fired = FALSE
    /\ pipe = <<>>
    /\ pipe_open = FALSE
    /\ nwrites = 0
    /\ bufrd = <<>>
    /\ stderr_bytes = <<>>
    /\ read_count = 0
    /\ last_line = None
    /\ outcome = None
    /\ pc = "idle"
    /\ launch_err = None
    /\ cleanup = <<>>
    /\ trace = <<>>
    /\ chan = <<>>
    /\ hstate = "none"
    /\ cpc = "idle"
    /\ hclose = "none"
    /\ browser = None
    /\ dropped = FALSE
    /\ warned = 0
    /\ calls = <<>>
    /\ hpending = {}
    /\ hrecv = <<>>
    /\ hctx = {}
    /\ pages = <<>>
    /\ cookies = {}
    /\ pbuilder = ChaserProfile_new("Windows")
    /\ pcalls = 0
    /\ profile = None
    /\ doc = NewDocument
    /\ wk = NoWorker

NextSession ==
    \/ LaunchSpawn
    \/ \E chunk \in {AnnounceLine} : ChildWrite(chunk)
    \/ \E status \in ExitStatuses : ChildExit(status)
    \/ DiscoverExit
    \/ DiscoverRead
    \/ LaunchConnectOk
    \/ CleanupTryWait
    \/ CleanupKill
    \/ CleanupWait
    \/ ConnectResolve
    \/ AttachConnectOk
    \/ BrowserExecute
    \/ \E id \in DOMAIN calls : ExecuteReturn(id)
    \/ \E params \in PageParams : BrowserNewPage(params)
    \/ \E id \in DOMAIN calls : NewPageReturn(id)
    \/ \E cks \in CookieLists : BrowserSetCookies(cks)
    \/ BrowserStartIncognito
    \/ \E id \in DOMAIN calls : StartIncognitoCreated(id)
    \/ \E id \in DOMAIN calls : NotifyContext(id)
    \/ BrowserQuitIncognito
    \/ \E id \in DOMAIN calls : QuitIncognitoDisposed(id)
    \/ HandlerRecv
    \/ \E m \in hpending : HandlerReply(m)
    \/ HandlerEnds

SpecSession == InitSession /\ [][NextSession]_vars



(***************************************************************************)
(* Vocabulary of the properties of the argument merger.                    *)
(***************************************************************************)
\* the values a sequence of Args contributes to key k, in order
RECURSIVE Accumulated(_, _)
Accumulated(as, k) ==
    IF as = <<>> THEN <<>>
    ELSE (IF Head(as).key = k THEN Head(as).values ELSE <<>>)
            \o Accumulated(Tail(as), k)

KeysOf(as) == {as[i].key : i \in DOMAIN as}
TimesContributed(as, k) == Cardinality({i \in DOMAIN as : as[i].key = k})

\* the flag as the data model states it: bare, or --key=v1,v2,...
ExpectedFlag(k, vs) ==
    IF vs = <<>> THEN "--" \o k ELSE "--" \o k \o "=" \o Join(vs, ",")

\* the rendered tokens are exactly one token per key of the builder
OneTokenPerBuilderKey ==
    /\ BagCardinality(rendered) = Cardinality(DOMAIN builder)
    /\ \A k \in DOMAIN builder : CopiesIn(ExpectedFlag(k, builder[k]), rendered) = 1

FlagPresent(k) ==
    /\ k \in DOMAIN builder
    /\ CopiesIn(ExpectedFlag(k, builder[k]), rendered) = 1

FlagAbsent(k) == k \notin DOMAIN builder /\ OneTokenPerBuilderKey

FlagIs(k, vs) ==
    /\ k \in DOMAIN builder
    /\ builder[k] = vs
    /\ CopiesIn(ExpectedFlag(k, vs), rendered) = 1

ArgsRendered == cphase \in {"launched", "spawn_failed"}
Cfg == Unwrap(config)
CallerHas(k) == k \in KeysOf(Cfg.args)
CallerValues(k) == Accumulated(Cfg.args, k)
DefaultKeys == KeysOf(DEFAULT_ARGS)
DefaultValues(k) == Accumulated(DEFAULT_ARGS, k)
IsPrefix(p, q) == Len(p) <= Len(q) /\ SubSeq(q, 1, Len(p)) = p

\* C5: a key contributed more than once carries, in the builder and in its
\* single rendered flag, the concatenation of all contributed value lists in
\* contribution order (an override never replaces earlier values).
C5_CollisionsConcatenate ==
    \A k \in KeysOf(contrib) :
        TimesContributed(contrib, k) > 1 =>
            /\ builder[k] = Accumulated(contrib, k)
            /\ bphase = "consumed" =>
                   CopiesIn(ExpectedFlag(k, Accumulated(contrib, k)), rendered) = 1

C5_Witness ==
    /\ bphase = "consumed"
    /\ contrib = << ArgValues("disable-features", <<"TranslateUI">>),
                    ArgValues("disable-features",
                              <<"HttpsUpgrades", "HttpsFirstBalancedModeAutoEnable">>) >>
    /\ CopiesIn("--disable-features=TranslateUI,HttpsUpgrades,HttpsFirstBalancedModeAutoEnable",
                rendered) = 1

\* C6: after any sequence of insertions the finalized command line holds
\* exactly one token per distinct key, `--key` for an empty accumulated value
\* list and `--key=v1,v2,...` otherwise; no key appears in two tokens.
C6_OneTokenPerKey ==
    bphase = "consumed" =>
        /\ BagCardinality(rendered) = Cardinality(KeysOf(contrib))
        /\ \A k \in KeysOf(contrib) :
              CopiesIn(ExpectedFlag(k, Accumulated(contrib, k)), rendered) = 1

C6_Witness ==
    /\ bphase = "consumed"
    /\ Len(contrib) = 3
    /\ BagCardinality(rendered) = 2
    /\ CopiesIn("--no-sandbox", rendered) = 1
    /\ CopiesIn("--headless=new", rendered) = 1


(***************************************************************************)
(* Properties of the command line BrowserConfig::launch renders.           *)
(***************************************************************************)
\* the keys the config-derived rules of launch() add for a config c
ConfigDerivedKeys(c) ==
    (IF c.extensions = <<>> THEN {"disable-extensions"} ELSE {"load-extension"})
    \cup {"user-data-dir"}
    \cup (IF IsSome(c.window_size) THEN {"window-size"} ELSE {})
    \cup (IF c.sandbox THEN {} ELSE {"no-sandbox", "disable-setuid-sandbox"})
    \cup (IF c.headless = "False" THEN {}
          ELSE {"headless", "hide-scrollbars", "mute-audio"})
    \cup (IF c.incognito THEN {"incognito"} ELSE {})
    \cup (IF c.hidden THEN {"disable-blink-features"} ELSE {})
    \cup (IF c.disable_https_first THEN {"disable-features"} ELSE {})

\* what the default table (when enabled) and the caller contribute to key k
BaseHas(k) == CallerHas(k) \/ (~Cfg.disable_default_args /\ k \in DefaultKeys)
BaseValues(k) ==
    (IF Cfg.disable_default_args THEN <<>> ELSE DefaultValues(k)) \o CallerValues(k)

\* C7 as stated: an empty extension list gives a disable-extensions flag; a
\* non-empty one gives the configured extensions as load-extension values and
\* no disable-extensions flag.
C7_Original ==
    ArgsRendered =>
        IF Cfg.extensions = <<>>
        THEN FlagPresent("disable-extensions")
        ELSE /\ FlagIs("load-extension",
                       CallerValues("load-extension") \o Cfg.extensions)
             /\ FlagAbsent("disable-extensions")

\* C7 (amended): an empty extension list gives a disable-extensions flag; a
\* non-empty one gives a single load-extension flag listing every configured
\* extension in order (after any caller-supplied load-extension values), and a
\* disable-extensions flag is then present only if the caller's own arguments
\* contain that key.
C7_ExtensionFlags ==
    ArgsRendered =>
        IF Cfg.extensions = <<>>
        THEN FlagIs("disable-extensions", CallerValues("disable-extensions"))
        ELSE /\ FlagIs("load-extension",
                       CallerValues("load-extension") \o Cfg.extensions)
             /\ IF CallerHas("disable-extensions")
                THEN FlagIs("disable-extensions", CallerValues("disable-extensions"))
                ELSE FlagAbsent("disable-extensions")

C7_Witness ==
    /\ ArgsRendered
    /\ Cfg.extensions = <<"/ext/a", "/ext/b">>
    /\ ~CallerHas("disable-extensions")
    /\ CopiesIn("--load-extension=/ext/a,/ext/b", rendered) = 1
    /\ CopiesIn("--disable-extensions", rendered) = 0

\* the decimal text of the ports of the model
PortText(p) == CASE p = 0 -> "0" [] p = 9222 -> "9222"

\* C8: the rendered arguments always contain a remote-debugging-port flag;
\* it carries the single value config.port (0 included) when neither the
\* defaults nor the caller contributed the key, and otherwise only the
\* contributed values (config.port is not added).
C8_DebugPortFlag ==
    ArgsRendered =>
        IF BaseHas("remote-debugging-port")
        THEN FlagIs("remote-debugging-port", BaseValues("remote-debugging-port"))
        ELSE /\ FlagIs("remote-debugging-port", << PortText(Cfg.port) >>)
             /\ CopiesIn("--remote-debugging-port=" \o PortText(Cfg.port), rendered) = 1

C8_Witness ==
    /\ ArgsRendered
    /\ Cfg.port = 9222
    /\ Cfg.args = << ArgValue("remote-debugging-port", "9333") >>
    /\ CopiesIn("--remote-debugging-port=9333", rendered) = 1

C8_WitnessInjected ==
    /\ ArgsRendered
    /\ Cfg.port = 0
    /\ ~CallerHas("remote-debugging-port")
    /\ CopiesIn("--remote-debugging-port=0", rendered) = 1

\* the directory of the user-data-dir rule: explicit, or the default under
\* the process's temporary directory
ConfiguredUserDataDir ==
    IF IsSome(Cfg.user_data_dir) THEN Unwrap(Cfg.user_data_dir)
    ELSE "/tmp/chromiumoxide-runner"

\* C9 as stated: the value of the user-data-dir flag is the explicitly
\* configured directory when one is given, otherwise the default directory.
C9_Original ==
    ArgsRendered => FlagIs("user-data-dir", << ConfiguredUserDataDir >>)

\* C9 (amended): a user-data-dir flag is always rendered and the last value
\* of its list is the explicitly configured directory when one is given,
\* otherwise the default directory; it is the only value unless the caller's
\* own arguments contain the key, whose values then come first.
C9_UserDataDirFlag ==
    ArgsRendered =>
        /\ FlagIs("user-data-dir",
                  CallerValues("user-data-dir") \o << ConfiguredUserDataDir >>)
        /\ ~CallerHas("user-data-dir") =>
               CopiesIn("--user-data-dir=" \o ConfiguredUserDataDir, rendered) = 1

C9_Witness ==
    /\ cphase = "launched"
    /\ Cfg.user_data_dir = None
    /\ Cfg.args = << ArgValue("user-data-dir", "/u") >>
    /\ CopiesIn("--user-data-dir=/u,/tmp/chromiumoxide-runner", rendered) = 1

\* C10: with the defaults enabled every default key is rendered; with the
\* defaults disabled a default key is rendered only if the caller supplied it
\* or a config-derived rule added it; the caller's arguments are always
\* appended (after the default values of the same key, if any).
C10_DefaultsAndCallerArgs ==
    ArgsRendered =>
        /\ ~Cfg.disable_default_args =>
               \A d \in DefaultKeys :
                  FlagPresent(d) /\ IsPrefix(DefaultValues(d), builder[d])
        /\ Cfg.disable_default_args =>
               \A d \in DefaultKeys :
                  IF CallerHas(d) \/ d \in ConfigDerivedKeys(Cfg)
                  THEN FlagPresent(d)
                  ELSE FlagAbsent(d)
        /\ \A k \in KeysOf(Cfg.args) :
               FlagPresent(k) /\ IsPrefix(BaseValues(k), builder[k])

C10_Witness ==
    /\ ArgsRendered
    /\ Cfg.disable_default_args
    /\ Cfg.args = << ArgKey("no-first-run") >>
    /\ CopiesIn("--no-first-run", rendered) = 1
    /\ CopiesIn("--disable-sync", rendered) = 0
    /\ "disable-sync" \notin DOMAIN builder

(***************************************************************************)
(* Vocabulary of the properties of Browser::launch.                        *)
(***************************************************************************)
EventsOf(t) == {t[i] : i \in DOMAIN t}
ProtocolEvents ==
    {"connect", "channel", "handler", "send", "send_close", "handler_close"}
DiscoveryKinds == {"Url", "LaunchTimeout", "LaunchExit", "LaunchIo"}
PastDiscovery ==
    pc \in {"connect", "cleanup_try_wait", "cleanup_kill", "cleanup_wait",
            "returned_ok", "panicked"}
DecisionsIn(t) == {i \in DOMAIN t : t[i] \in {"discovery_ok", "discovery_err"}}

ReapedAtOnce == cleanup = << <<"try_wait", "Ok(Some)">> >>
KilledThenWaited ==
    /\ Len(cleanup) = 3
    /\ cleanup[1] \in {<<"try_wait", "Ok(None)">>, <<"try_wait", "Err">>}
    /\ cleanup[2] = <<"kill", "Ok">>
    /\ cleanup[3] = <<"wait", "Ok">>

\* C1: whenever launch returns an error after the child was spawned, the
\* child has been reaped: either try_wait found it already exited, or it
\* was killed and then waited for, in that order, before the return.
C1_FailedLaunchReapsChild ==
    (pc = "returned_err" /\ child # "none") =>
        /\ IsSome(launch_err)
        /\ child = "reaped"
        /\ ReapedAtOnce \/ KilledThenWaited

C1_Witness ==
    /\ pc = "returned_err"
    /\ IsSome(launch_err) /\ Unwrap(launch_err).kind = "LaunchTimeout"
    /\ KilledThenWaited
    /\ cleanup[1] = <<"try_wait", "Ok(None)">>
    /\ child = "reaped"

C1_WitnessAlreadyExited ==
    /\ pc = "returned_err"
    /\ IsSome(launch_err) /\ Unwrap(launch_err).kind = "LaunchExit"
    /\ ReapedAtOnce

C1_WitnessConnectFailed ==
    /\ pc = "returned_err"
    /\ IsSome(launch_err) /\ Unwrap(launch_err).kind = "Ws"
    /\ KilledThenWaited

C1_WitnessIo ==
    /\ pc = "returned_err"
    /\ IsSome(launch_err) /\ Unwrap(launch_err).kind = "LaunchIo"
    /\ KilledThenWaited

\* C2: discovery ends with exactly one outcome (a URL, a timeout, a process
\* exit or an I/O error), decided by the first branch that completes; once
\* decided it never changes, in kind, in value or in the stderr it carries.
C2_ExactlyOneOutcome ==
    /\ [](pc = "discover" => outcome = None /\ DecisionsIn(trace) = {})
    /\ [](PastDiscovery =>
            /\ IsSome(outcome)
            /\ Unwrap(outcome).kind \in DiscoveryKinds
            /\ Cardinality(DecisionsIn(trace)) = 1)
    /\ [](IsSome(outcome) /\ Unwrap(outcome).kind # "Url"
            => launch_err = outcome)
    /\ [][IsSome(outcome) => outcome' = outcome]_vars

C2_Witness ==
    /\ pc = "returned_err"
    /\ IsSome(outcome) /\ Unwrap(outcome).kind = "LaunchExit"
    /\ timer_fired
    /\ nwrites > 0
    /\ Unwrap(outcome).stderr = <<>>

\* what follows the occurrence of "listening on " that starts at i
ValueAt(line, i) == SubSeq(line, i + Len(LISTENING_ON), Len(line))
IsDevtoolsValue(v) == starts_with(v, WS_SCHEME) /\ contains(v, DEVTOOLS_BROWSER)
LineRead == IsSome(last_line) /\ Len(Unwrap(last_line)) > 0
                              /\ from_utf8_ok(Unwrap(last_line))

\* C3 as stated: a line that contains "listening on " followed by a value
\* that starts with the WebSocket scheme and contains the devtools-browser
\* marker makes discovery succeed with that value, trimmed.
C3_Original ==
    LineRead =>
        \A i \in Occurrences(Unwrap(last_line), LISTENING_ON) :
            IsDevtoolsValue(ValueAt(Unwrap(last_line), i)) =>
                outcome = Some(OkUrl(trim(ValueAt(Unwrap(last_line), i))))

\* C3: a line whose text after the LAST occurrence of "listening on " starts
\* with the WebSocket scheme and contains the devtools-browser marker makes
\* discovery succeed with exactly that text, surrounding whitespace trimmed.
C3_LastAnnouncementWins ==
    (LineRead /\ Occurrences(Unwrap(last_line), LISTENING_ON) # {}) =>
        LET v == ValueAt(Unwrap(last_line),
                         SetMax(Occurrences(Unwrap(last_line), LISTENING_ON)))
        IN  IsDevtoolsValue(v) =>
                /\ outcome = Some(OkUrl(trim(v)))
                /\ pc \in {"connect", "cleanup_try_wait", "cleanup_kill",
                           "cleanup_wait", "returned_ok", "returned_err",
                           "panicked"}

C3_Witness ==
    /\ last_line = Some(AnnounceLine)
    /\ outcome = Some(OkUrl(AnnounceUrl))

C3_WitnessTrimmed ==
    /\ last_line = Some(CrLfLine)
    /\ IsSome(outcome) /\ Unwrap(outcome).kind = "Url"
    /\ Len(Unwrap(outcome).val) < Len(ValueAt(CrLfLine, 1))

\* C4: nothing of the protocol (connection, command channel, handler, a
\* command sent) exists before discovery has succeeded, and nothing of it
\* ever exists after discovery has failed.
C4_ProtocolOnlyAfterDiscovery ==
    /\ \A i \in DOMAIN trace :
          trace[i] \in ProtocolEvents =>
              \E j \in 1..(i - 1) : trace[j] = "discovery_ok"
    /\ "discovery_err" \in EventsOf(trace) =>
          /\ EventsOf(trace) \cap ProtocolEvents = {}
          /\ pc \notin {"connect", "returned_ok"}
    /\ (chan # <<>> \/ pc \in {"connect", "returned_ok"}) =>
          IsSome(outcome) /\ Unwrap(outcome).kind = "Url"

C4_Witness ==
    /\ trace = <<"spawn", "discovery_ok", "connect", "channel", "handler",
                 "return_ok", "send">>
    /\ chan # <<>>

C4_WitnessFailed ==
    /\ "discovery_err" \in EventsOf(trace)
    /\ pc = "returned_err"
    /\ chan = <<>>

(***************************************************************************)
(* Properties of the conditional flags of BrowserConfig::launch.           *)
(***************************************************************************)
ConditionalKeys ==
    {"window-size", "no-sandbox", "disable-setuid-sandbox", "headless",
     "hide-scrollbars", "mute-audio", "incognito", "disable-blink-features"}
CallerLeavesConditionalKeys == \A k \in ConditionalKeys : ~CallerHas(k)

\* the decimal text of the window dimensions of the model
SizeText(n) == CASE n = 1280 -> "1280" [] n = 720 -> "720"

\* C11: when the caller's own arguments contain none of the conditional
\* keys, window-size is rendered iff a window size is set; no-sandbox and
\* disable-setuid-sandbox iff sandbox is false; incognito iff incognito is
\* set; disable-blink-features=AutomationControlled iff hidden is set;
\* headless off adds no headless flag, legacy headless a bare headless flag,
\* new headless headless=new, the last two with hide-scrollbars and
\* mute-audio.
C11_ConditionalFlags ==
    (ArgsRendered /\ CallerLeavesConditionalKeys) =>
        /\ IF IsSome(Cfg.window_size)
           THEN FlagIs("window-size", << SizeText(Unwrap(Cfg.window_size)[1]),
                                         SizeText(Unwrap(Cfg.window_size)[2]) >>)
           ELSE FlagAbsent("window-size")
        /\ IF Cfg.sandbox
           THEN FlagAbsent("no-sandbox") /\ FlagAbsent("disable-setuid-sandbox")
           ELSE FlagIs("no-sandbox", <<>>) /\ FlagIs("disable-setuid-sandbox", <<>>)
        /\ IF Cfg.incognito THEN FlagIs("incognito", <<>>) ELSE FlagAbsent("incognito")
        /\ IF Cfg.hidden
           THEN FlagIs("disable-blink-features", <<"AutomationControlled">>)
           ELSE FlagAbsent("disable-blink-features")
        /\ Cfg.headless = "False" =>
              /\ FlagAbsent("headless")
              /\ FlagAbsent("hide-scrollbars")
              /\ FlagAbsent("mute-audio")
        /\ Cfg.headless = "True" =>
              /\ FlagIs("headless", <<>>)
              /\ FlagIs("hide-scrollbars", <<>>)
              /\ FlagIs("mute-audio", <<>>)
        /\ Cfg.headless = "New" =>
              /\ FlagIs("headless", <<"new">>)
              /\ FlagIs("hide-scrollbars", <<>>)
              /\ FlagIs("mute-audio", <<>>)

C11_Witness ==
    /\ ArgsRendered /\ CallerLeavesConditionalKeys
    /\ Cfg.headless = "New" /\ ~Cfg.sandbox /\ IsSome(Cfg.window_size)
    /\ CopiesIn("--headless=new", rendered) = 1
    /\ CopiesIn("--no-sandbox", rendered) = 1
    /\ CopiesIn("--window-size=1280,720", rendered) = 1

C11_WitnessHeadful ==
    /\ ArgsRendered /\ CallerLeavesConditionalKeys
    /\ Cfg.headless = "False" /\ Cfg.incognito /\ Cfg.hidden
    /\ CopiesIn("--incognito", rendered) = 1
    /\ CopiesIn("--disable-blink-features=AutomationControlled", rendered) = 1

HttpsFirstValues == << "HttpsUpgrades", "HttpsFirstBalancedModeAutoEnable" >>
ValuesOf(seq) == {seq[i] : i \in DOMAIN seq}

\* C12: with disable_https_first set, the single disable-features flag
\* carries HttpsUpgrades and HttpsFirstBalancedModeAutoEnable after whatever
\* the defaults (TranslateUI) and the caller contributed to that key; when
\* it is not set the flag carries none of the two values unless the caller
\* supplied them.
C12_HttpsFirstFlag ==
    ArgsRendered =>
        IF Cfg.disable_https_first
        THEN /\ FlagIs("disable-features", BaseValues("disable-features") \o HttpsFirstValues)
             /\ ~Cfg.disable_default_args =>
                   IsPrefix(<<"TranslateUI">>, builder["disable-features"])
             /\ (~Cfg.disable_default_args /\ ~CallerHas("disable-features")) =>
                   CopiesIn("--disable-features=TranslateUI,HttpsUpgrades,HttpsFirstBalancedModeAutoEnable",
                            rendered) = 1
        ELSE /\ IF BaseHas("disable-features")
                THEN FlagIs("disable-features", BaseValues("disable-features"))
                ELSE FlagAbsent("disable-features")
             /\ \A v \in ValuesOf(HttpsFirstValues) :
                   v \notin ValuesOf(CallerValues("disable-features")) =>
                       \/ "disable-features" \notin DOMAIN builder
                       \/ v \notin ValuesOf(builder["disable-features"])

C12_Witness ==
    /\ ArgsRendered
    /\ Cfg.disable_https_first /\ ~Cfg.disable_default_args
    /\ ~CallerHas("disable-features")
    /\ builder["disable-features"] =
          <<"TranslateUI", "HttpsUpgrades", "HttpsFirstBalancedModeAutoEnable">>

C12_WitnessNoDefaults ==
    /\ ArgsRendered
    /\ Cfg.disable_https_first /\ Cfg.disable_default_args
    /\ CopiesIn("--disable-features=HttpsUpgrades,HttpsFirstBalancedModeAutoEnable", rendered) = 1

(***************************************************************************)
(* Properties of the read branch of ws_url_from_output.                    *)
(***************************************************************************)
\* the read that completed last returned byte_count = 0
ReadReturnedZero == last_line = Some(<<>>)
DiscoveryOver == pc # "discover" /\ pc # "idle"

\* C13: a read of the diagnostic stream that returns zero bytes ends
\* discovery at once with LaunchIo(unexpected end of stream), carrying the
\* bytes captured so far; the loop does not go on to wait for the exit or
\* the timeout.
C13_EofIsLaunchIo ==
    ReadReturnedZero =>
        /\ outcome = Some(LaunchIo("UnexpectedEof", stderr_bytes))
        /\ launch_err = outcome
        /\ DiscoveryOver

C13_Witness ==
    /\ ReadReturnedZero
    /\ pc = "cleanup_try_wait"
    /\ Unwrap(outcome).kind = "LaunchIo"
    /\ Unwrap(outcome).val = <<"UnexpectedEof">>
    /\ child = "running" /\ exit_status = None
    /\ ~timer_fired

\* the child was silent up to the decision: it wrote nothing, kept its
\* stderr open and was still running, and no read or wait call failed
IoFault ==
    /\ Unwrap(outcome).kind = "LaunchIo"
    /\ Unwrap(outcome).val \in {<<"read">>, <<"wait">>}
DecidedOnSilentChild ==
    /\ pc \in {"connect", "cleanup_try_wait"}
    /\ child = "running" /\ pipe_open /\ nwrites = 0
    /\ ~IoFault

\* C14: with a deadline of 0 discovery ends, and when the child has written
\* nothing, has not closed its stderr and has not exited, it ends with
\* LaunchTimeout (with no captured bytes): no URL, LaunchExit or LaunchIo.
C14_ZeroDeadlineTimesOut ==
    /\ [](Cfg.launch_timeout = 0 /\ DecidedOnSilentChild
            => outcome = Some(LaunchTimeout(<<>>)))
    /\ (pc = "discover" /\ Cfg.launch_timeout = 0) ~> DiscoveryOver

C14_Witness ==
    /\ Cfg.launch_timeout = 0
    /\ DecidedOnSilentChild
    /\ Unwrap(outcome).kind = "LaunchTimeout"
    /\ trace = <<"spawn", "discovery_err">>

\* the text after the last "listening on " of a line, None without one
Announced(line) ==
    IF Occurrences(line, LISTENING_ON) = {} THEN None
    ELSE Some(ValueAt(line, SetMax(Occurrences(line, LISTENING_ON))))
NonMatching(line) ==
    ~IsSome(Announced(line)) \/ ~IsDevtoolsValue(Unwrap(Announced(line)))
\* the outcomes that are not the result of reading a line
DecidedByOtherSignal ==
    \/ Unwrap(outcome).kind \in {"LaunchTimeout", "LaunchExit"}
    \/ Unwrap(outcome).kind = "LaunchIo" /\ Unwrap(outcome).val \in {<<"read">>, <<"wait">>}

\* C15: a line of valid text that does not satisfy the announcement pattern
\* produces neither an error nor a result (while it is the last line read,
\* it is kept in stderr_bytes before the bytes of the read in progress, and
\* discovery is still running or was ended by the timeout, the exit or a
\* failed call), and a matching line read after earlier lines yields
\* success.
C15_NonMatchingLineContinues ==
    /\ (LineRead /\ NonMatching(Unwrap(last_line))) =>
          /\ pc = "discover" =>
                /\ Len(stderr_bytes) >= Len(Unwrap(last_line)) + read_count
                /\ NewBytes(SubSeq(stderr_bytes, 1, Len(stderr_bytes) - read_count),
                            Len(Unwrap(last_line))) = Unwrap(last_line)
          /\ \/ outcome = None /\ pc = "discover"
             \/ IsSome(outcome) /\ DecidedByOtherSignal
    /\ (LineRead /\ ~NonMatching(Unwrap(last_line))
                 /\ Len(stderr_bytes) > Len(Unwrap(last_line))) =>
          outcome = Some(OkUrl(trim(Unwrap(Announced(Unwrap(last_line))))))

C15_Witness ==
    /\ stderr_bytes = NoMarkerLine \o AnnounceLine
    /\ last_line = Some(AnnounceLine)
    /\ outcome = Some(OkUrl(AnnounceUrl))

C15_WitnessContinues ==
    /\ last_line = Some(HttpLine)
    /\ outcome = None /\ pc = "discover"
    /\ read_count = 0

\* C16: a newly read line that is not valid UTF-8 ends discovery at once
\* with LaunchIo(invalid data); the error carries the captured bytes with the
\* offending line as their end, and no line is read after it.
C16_InvalidUtf8IsLaunchIo ==
    (IsSome(last_line) /\ ~from_utf8_ok(Unwrap(last_line))) =>
        /\ outcome = Some(LaunchIo("InvalidData", stderr_bytes))
        /\ launch_err = outcome
        /\ NewBytes(stderr_bytes, Len(Unwrap(last_line))) = Unwrap(last_line)
        /\ DiscoveryOver

C16_Witness ==
    /\ last_line = Some(BadUtf8Line)
    /\ stderr_bytes = NoiseLine \o BadUtf8Line
    /\ Unwrap(outcome).val = <<"InvalidData">>
    /\ pc = "cleanup_try_wait"

\* the exit branch is the only one that collects the child during discovery
ExitSignalWon == pc = "cleanup_try_wait" /\ child = "reaped"

\* C17: when the exit branch wins with a successful wait the outcome is
\* LaunchExit with the status the child exited with; when waiting failed it
\* is LaunchIo with that cause; a LaunchExit is never reported for a child
\* that was not collected, and the exit branch never yields a timeout or a
\* URL.
C17_ExitOutcome ==
    /\ ExitSignalWon =>
          /\ IsSome(exit_status)
          /\ Unwrap(exit_status) \in ExitStatuses
          /\ outcome = Some(LaunchExit(Unwrap(exit_status), stderr_bytes))
    /\ (IsSome(outcome) /\ Unwrap(outcome).kind = "LaunchExit") =>
          /\ pc = "cleanup_try_wait" => child = "reaped"
          /\ Unwrap(outcome).val \in {<<s>> : s \in ExitStatuses}
    /\ (IsSome(outcome) /\ Unwrap(outcome).val = <<"wait">>) =>
          /\ Unwrap(outcome).kind = "LaunchIo"
          /\ pc = "cleanup_try_wait" => child # "reaped"

C17_Witness ==
    /\ ExitSignalWon
    /\ outcome = Some(LaunchExit("exit:1", NoiseLine))
    /\ timer_fired

C17_WitnessWaitFailed ==
    /\ pc = "cleanup_try_wait"
    /\ outcome = Some(LaunchIo("wait", <<>>))
    /\ child = "zombie"

\* everything the child has written that the race has seen or can still see
Stream == stderr_bytes \o bufrd \o pipe

\* C18: stderr_bytes and what is still unread always make up what the child
\* wrote, in order (a read only moves bytes from the front of the unread
\* part to the end of stderr_bytes), and a failure carries exactly
\* stderr_bytes as it is at that moment.
C18_FailureCarriesCapturedBytes ==
    /\ [][pc = "discover" =>
            /\ IsPrefix(stderr_bytes, stderr_bytes')
            /\ IsPrefix(stderr_bytes', Stream)
            /\ pc' = "discover" =>
                  Stream' \in {Stream} \cup {Stream \o c : c \in StderrChunks}
            /\ (IsSome(outcome') /\ Unwrap(outcome').kind # "Url") =>
                  Unwrap(outcome').stderr = stderr_bytes']_vars
    /\ [](IsSome(outcome) /\ Unwrap(outcome).kind # "Url" =>
            Unwrap(outcome).stderr = stderr_bytes /\ launch_err = outcome)

C18_Witness ==
    /\ IsSome(outcome) /\ Unwrap(outcome).kind = "LaunchTimeout"
    /\ Unwrap(outcome).stderr = NoiseLine \o PartHead
    /\ last_line = Some(NoiseLine)

CloseRequested == "send_close" \in EventsOf(trace)
SessionState ==
    CASE pc = "idle" -> "Disconnected"
      [] pc \in {"discover", "connect", "cleanup_try_wait", "cleanup_kill",
                 "cleanup_wait"} -> "Connecting"
      [] pc \in {"returned_err", "panicked"} -> "Failed"
      [] pc = "returned_ok" ->
            IF hstate = "ended"
            THEN (IF CloseRequested THEN "Closed" ELSE "Lost")
            ELSE (IF CloseRequested THEN "Closing" ELSE "Live")

\* event e occurs in t, and its first occurrence follows one of event d
Follows(t, e, d) ==
    \A i \in DOMAIN t : t[i] = e => \E j \in 1..(i - 1) : t[j] = d

\* C20 as stated: a session launched successfully is in one of the states
\* Live, Closing, Closed, and the Handler's event loop has ended (Closed)
\* only after a close call issued the graceful shutdown request.
C20_Original ==
    pc = "returned_ok" =>
        /\ SessionState \in {"Live", "Closing", "Closed"}
        /\ hstate = "ended" => CloseRequested

SessionTransitions ==
    { <<"Disconnected", "Connecting">>, <<"Disconnected", "Failed">>,
      <<"Connecting", "Live">>, <<"Connecting", "Failed">>,
      <<"Live", "Closing">>, <<"Closing", "Closed">>, <<"Live", "Lost">> }

\* C20: the session moves only along Disconnected -> Connecting -> Live ->
\* Closing -> Closed, or leaves that path by a failed launch (from
\* Disconnected or Connecting) or by losing the Handler's event loop while
\* Live without any close call.  Closing is entered only by a close call
\* that has sent CloseBrowser to the handler and awaits the reply; close
\* returns Ok only after the handler issued the close command; Closed is
\* reached only after the request was sent.
C20_SessionLifecycle ==
    /\ [][SessionState' # SessionState =>
            /\ <<SessionState, SessionState'>> \in SessionTransitions
            /\ SessionState' = "Closing" =>
                  /\ cpc = "idle" /\ cpc' = "awaiting"
                  /\ Len(chan') = Len(chan) + 1
                  /\ SubSeq(chan', 1, Len(chan)) = chan
                  /\ chan'[Len(chan')].kind = "CloseBrowser"
                  /\ trace' = trace \o <<"close_call", "send_close">>]_vars
    /\ [](/\ Follows(trace, "close_ok", "handler_close")
          /\ Follows(trace, "handler_close", "send_close")
          /\ Follows(trace, "send_close", "return_ok")
          /\ cpc = "awaiting" => SessionState \in {"Closing", "Closed"}
          /\ SessionState = "Closed" => CloseRequested)

C20_Witness ==
    /\ SessionState = "Closed"
    /\ trace = <<"spawn", "discovery_ok", "connect", "channel", "handler",
                 "return_ok", "close_call", "send_close", "handler_close",
                 "close_ok", "handler_end">>

C20_WitnessLost ==
    /\ SessionState = "Lost"
    /\ "close_call" \notin EventsOf(trace)
    /\ child = "zombie"

(***************************************************************************)
(* Properties of the Browser handle: Drop, the calls on the process, the   *)
(* config it keeps and the URL it attaches to.                             *)
(***************************************************************************)
Owns == IsSome(browser) /\ Unwrap(browser).child
LastCall(cs) == cs[Len(cs)]
Dropping == ~dropped /\ dropped'
Exited(c) == c \in {"zombie", "reaped"}

C21_WitnessQuiet ==
    /\ dropped /\ Owns /\ warned = 0
    /\ Len(calls) = 2 /\ calls[1].op = "kill"

C21_WitnessAttached ==
    /\ dropped /\ ~Owns /\ warned = 0 /\ child = "running"

ClosedOk == "close_ok" \in EventsOf(trace)
ReapCalls == {"wait", "try_wait", "kill"}
NoReapCall == \A i \in DOMAIN calls : calls[i].op \notin ReapCalls
Polled(cs) == Unwrap(LastCall(cs).ret).txt

C22_WitnessReaped ==
    /\ dropped /\ Owns /\ ClosedOk /\ NoReapCall
    /\ child = "reaped" /\ warned = 0

Attached == IsSome(attach) /\ IsSome(browser)
CallReturned(op) == Len(calls') = Len(calls) + 1 /\ LastCall(calls').op = op
AbsentAnswer(op) == IF op \in {"wait", "try_wait"} THEN "Ok(None)" ELSE "None"
ProcessCallsMade == Cardinality({i \in DOMAIN calls : calls[i].op \in ProcessOps})

\* C23: the handle of an attached session holds no child.  On it wait and
\* try_wait return Ok(None), kill and get_mut_child return None, and the
\* call changes neither the browser process, its exit status, the channel
\* nor the handler; the four calls can be made whenever the handle is not
\* borrowed, whether the browser runs or has exited and whether the handler
\* runs or has ended.
C23_AttachedHasNoProcess ==
    /\ [](Attached => ~Unwrap(browser).child)
    /\ [][\A op \in ProcessOps :
            (Attached /\ CallReturned(op)) =>
               /\ Polled(calls') = AbsentAnswer(op)
               /\ child' = child /\ exit_status' = exit_status
               /\ pipe_open' = pipe_open
               /\ chan' = chan /\ hstate' = hstate /\ trace' = trace
               /\ warned' = warned /\ dropped' = dropped]_vars
    /\ []((/\ Attached /\ ~dropped /\ cpc = "idle" /\ InFlight = {}
           /\ ProcessCallsMade < MaxProcessCalls /\ Len(calls) < MaxCalls)
             => /\ ENABLED BrowserWait /\ ENABLED BrowserTryWait
                /\ ENABLED BrowserKill /\ ENABLED BrowserGetMutChild)

C23_Witness ==
    /\ Attached /\ child = "zombie" /\ hstate = "ended"
    /\ Len(calls) = 2
    /\ calls[1].op = "kill" /\ Unwrap(calls[1].ret).txt = "None"
    /\ calls[2].op = "wait" /\ Unwrap(calls[2].ret).txt = "Ok(None)"

C23_WitnessRunning ==
    /\ Attached /\ child = "running" /\ hstate = "polling"
    /\ Len(calls) = 2
    /\ calls[1].op = "try_wait" /\ Unwrap(calls[1].ret).txt = "Ok(None)"
    /\ calls[2].op = "get_mut_child" /\ Unwrap(calls[2].ret).txt = "None"

(***************************************************************************)
(* Properties of the commands of a session: incognito contexts, pages,     *)
(* cookies and the replies to calls.                                       *)
(***************************************************************************)
ActiveContext == Unwrap(browser).browser_context
NotConfiguredIncognito ==
    /\ IsSome(browser)
    /\ IsSome(Unwrap(browser).config) => ~Unwrap(Unwrap(browser).config).incognito
PageCreated == Len(pages') = Len(pages) + 1 /\ SubSeq(pages', 1, Len(pages)) = pages
NewPage == pages'[Len(pages')]
ParamsOf(page) == calls[page.by].arg.ctx
ContextCreatedFor(id) ==
    /\ id \in DOMAIN calls
    /\ calls[id].op = "start_incognito_context"
    /\ calls[id].st = "await" /\ calls'[id].st = "notify"
CallBegins(op) == Len(calls') = Len(calls) + 1 /\ LastCall(calls').op = op

C24_WitnessExplicit ==
    /\ IsSome(browser) /\ NotConfiguredIncognito /\ IsSome(ActiveContext)
    /\ \E i \in DOMAIN pages :
          /\ pages[i].ctx # ActiveContext /\ pages[i].open
          /\ ParamsOf(pages[i]) = Some(ExplicitContext)
          /\ calls[pages[i].by].st = "done"
          /\ Unwrap(calls[pages[i].by].ret).ok

QuitOf(id) == calls[id].op = "quit_incognito_context"
QuitContext(id) == calls[id].arg.ctx
QuitSucceeds(id) ==
    /\ id \in DOMAIN calls /\ QuitOf(id) /\ IsSome(QuitContext(id))
    /\ calls[id].st = "notify" /\ calls'[id].st = "done"
    /\ Unwrap(calls'[id].ret).ok
QuitSucceeded ==
    \E id \in DOMAIN calls :
       /\ QuitOf(id) /\ IsSome(QuitContext(id))
       /\ calls[id].st = "done" /\ Unwrap(calls[id].ret).ok
PagesIn(c) == {i \in DOMAIN pages : pages[i].ctx = c}

\* C25 (as stated): once quit_incognito_context has succeeded and no context
\* is active, every page new_page creates has no browser-context id.
C25_Original ==
    [][(PageCreated /\ NotConfiguredIncognito /\ QuitSucceeded
        /\ ActiveContext = None) => NewPage.ctx = None]_vars

\* C25 (amended): quit_incognito_context with an active context takes it
\* out of the handle and sends one disposeBrowserContext command for it;
\* with no active context it returns Ok at once and sends nothing.  When it
\* succeeds the browser has disposed the context, the pages that ran in it
\* are closed, a DisposeContext message for it is on the channel (after
\* which the handler no longer tracks it) and no context is active.  For a
\* browser not configured incognito is_incognito is true exactly while a
\* context is active, so it is false after the success; a page created while
\* no context is active carries the context the parameters of new_page name
\* and none when they name none.
C25_QuitDisposesContext ==
    /\ [][(CallBegins("quit_incognito_context") /\ IsSome(ActiveContext)) =>
            /\ ActiveContext' = None
            /\ LastCall(calls').arg.ctx = ActiveContext
            /\ hstate # "ended" =>
                  /\ Len(chan') = Len(chan) + 1
                  /\ chan'[Len(chan')].kind = "Command"
                  /\ chan'[Len(chan')].method = "Target.disposeBrowserContext"
                  /\ chan'[Len(chan')].ctx = ActiveContext
            /\ hstate = "ended" => chan' = chan /\ ~Unwrap(LastCall(calls').ret).ok]_vars
    /\ [][(CallBegins("quit_incognito_context") /\ ActiveContext = None) =>
            /\ chan' = chan /\ trace' = trace /\ ActiveContext' = None
            /\ LastCall(calls').st = "done" /\ Unwrap(LastCall(calls').ret).ok
            /\ bctx' = bctx /\ pages' = pages /\ hpending' = hpending]_vars
    /\ [][\A id \in DOMAIN calls :
            QuitSucceeds(id) =>
               /\ ~bctx[Unwrap(QuitContext(id))]
               /\ \A i \in PagesIn(QuitContext(id)) : ~pages[i].open
               /\ Len(chan') = Len(chan) + 1
               /\ chan'[Len(chan')].kind = "DisposeContext"
               /\ chan'[Len(chan')].ctx = QuitContext(id)
               /\ ActiveContext' = None
               /\ NotConfiguredIncognito /\ ~is_incognito(Unwrap(browser'))]_vars
    /\ [][(chan # <<>> /\ hrecv' = Append(hrecv, Head(chan))
           /\ Head(chan).kind = "DisposeContext")
             => Unwrap(Head(chan).ctx) \notin hctx']_vars
    /\ [](IsSome(browser) =>
            is_incognito(Unwrap(browser)) =
               (~NotConfiguredIncognito \/ IsSome(ActiveContext)))
    /\ [][(PageCreated /\ IsSome(browser) /\ ActiveContext = None) =>
             NewPage.ctx = ParamsOf(NewPage)]_vars

C25_Witness ==
    /\ QuitSucceeded /\ ActiveContext = None
    /\ \E id \in DOMAIN calls :
          /\ QuitOf(id) /\ calls[id].st = "done" /\ IsSome(QuitContext(id))
          /\ PagesIn(QuitContext(id)) # {}
          /\ \A i \in PagesIn(QuitContext(id)) : ~pages[i].open
          /\ Unwrap(QuitContext(id)) \notin hctx
          /\ \E k \in DOMAIN hrecv : hrecv[k].kind = "DisposeContext"

C25_WitnessNothingActive ==
    /\ IsSome(browser) /\ Len(calls) = 1 /\ QuitOf(1)
    /\ calls[1].st = "done" /\ Unwrap(calls[1].ret).ok
    /\ chan = <<>> /\ hrecv = <<>>

C25_WitnessPageAfterQuit ==
    /\ QuitSucceeded /\ ActiveContext = None
    /\ \E i \in DOMAIN pages :
          pages[i].ctx = None /\ pages[i].open /\ calls[pages[i].by].st = "done"

C25_WitnessExplicitAfterQuit ==
    /\ QuitSucceeded /\ ActiveContext = None
    /\ \E i \in DOMAIN pages :
          pages[i].ctx = Some(ExplicitContext) /\ pages[i].open

IllFormed(cks) ==
    \E i \in DOMAIN cks : IsSome(cks[i].url) /\ ~validate_cookie_url(Unwrap(cks[i].url))
Rejected(c) == c.st = "done" /\ ~Unwrap(c.ret).ok /\ Unwrap(c.ret).txt = "InvalidCookieUrl"
SentMessages == {chan[i] : i \in DOMAIN chan} \cup {hrecv[i] : i \in DOMAIN hrecv}

\* C26: a set_cookies call with a cookie whose url is not well-formed returns
\* the validation error in the step it is made: nothing is put on the
\* channel, the handler holds no new request and the cookies of the browser
\* are unchanged, even when other cookies of the list are valid.  No message
\* that was ever sent carries a list with an ill-formed url, and a call that
\* was rejected never gets a reply.
C26_InvalidCookieSendsNothing ==
    /\ [][(CallBegins("set_cookies") /\ IllFormed(LastCall(calls').arg.cookies)) =>
            /\ Rejected(LastCall(calls'))
            /\ chan' = chan /\ trace' = trace
            /\ hpending' = hpending /\ hrecv' = hrecv
            /\ cookies' = cookies]_vars
    /\ [][(CallBegins("set_cookies") /\ ~IllFormed(LastCall(calls').arg.cookies)
           /\ hstate # "ended") =>
            /\ Len(chan') = Len(chan) + 1
            /\ chan'[Len(chan')].cookies = LastCall(calls').arg.cookies]_vars
    /\ [](/\ \A m \in SentMessages : ~IllFormed(m.cookies)
          /\ \A i \in DOMAIN calls :
                (calls[i].op = "set_cookies" /\ IllFormed(calls[i].arg.cookies)) =>
                   /\ Rejected(calls[i])
                   /\ calls[i].reply = None
                   /\ \A m \in SentMessages : m.id # i)

C26_Witness ==
    /\ Len(calls) = 2
    /\ calls[1].op = "set_cookies" /\ calls[1].arg.cookies = <<GoodCookie>>
    /\ calls[1].st = "done" /\ Unwrap(calls[1].ret).ok
    /\ calls[2].op = "set_cookies" /\ calls[2].arg.cookies = <<GoodCookie, BadCookie>>
    /\ Rejected(calls[2])
    /\ cookies = {"a"} /\ chan = <<>> /\ Len(hrecv) = 1

C26_WitnessFirst ==
    /\ Len(calls) = 1
    /\ calls[1].op = "set_cookies" /\ calls[1].arg.cookies = <<BadCookie>>
    /\ Rejected(calls[1])
    /\ cookies = {} /\ chan = <<>> /\ hrecv = <<>> /\ hstate = "polling"

AwaitsReply(i) == i \in DOMAIN calls /\ calls[i].st = "await"
Returned(i) == i \in DOMAIN calls /\ calls[i].st = "done"
Returns(i) == AwaitsReply(i) /\ calls'[i].st = "done"
ReplyFor(i) == Unwrap(calls[i].reply)
HandlerGone == hstate = "ended"

\* C27: a call that has sent its request and awaits the oneshot returns the
\* reply the handler gave to that very request, or, when the handler has
\* ended with the request unanswered, a canceled-channel error; a call made
\* after the handler ended returns a send error without waiting.  A reply is
\* stored only in the slot of the call whose request it answers, also when
\* calls overlap and are answered out of order.  Once the handler is gone no
\* call has a receiver that is still pending, and every call whose receiver
\* is ready eventually returns.
C27_ReplyOrLostConnection ==
    /\ [](\A i \in DOMAIN calls :
            /\ IsSome(calls[i].reply) => ReplyFor(i).for = i
            /\ calls[i].rx = "value" <=> IsSome(calls[i].reply)
            /\ (HandlerGone /\ AwaitsReply(i)) => calls[i].rx # "pending")
    /\ [][\A i \in DOMAIN calls :
            Returns(i) =>
               \/ /\ calls[i].rx = "value"
                  /\ Unwrap(calls'[i].ret).ok = ReplyFor(i).ok
                  /\ Unwrap(calls'[i].ret).val = ReplyFor(i).val
               \/ /\ calls[i].rx = "canceled" /\ HandlerGone
                  /\ ~Unwrap(calls'[i].ret).ok
                  /\ Unwrap(calls'[i].ret).txt = "ChannelCanceled"]_vars
    /\ [][(Len(calls') = Len(calls) + 1) =>
            IF HandlerGone
            THEN /\ LastCall(calls').st = "done"
                 /\ Unwrap(LastCall(calls').ret).txt = "ChannelSendError"
                 /\ chan' = chan
            ELSE /\ LastCall(calls').st = "await" /\ LastCall(calls').rx = "pending"
                 /\ chan'[Len(chan')].id = Len(calls')]_vars
    /\ [][\A i \in DOMAIN calls :
            (calls[i].rx # "pending") => calls'[i].rx = calls[i].rx
                                         /\ calls'[i].reply = calls[i].reply]_vars
    /\ \A i \in 1..MaxCalls :
          (AwaitsReply(i) /\ (HandlerGone \/ calls[i].rx = "value")) ~> Returned(i)

C27_Witness ==
    /\ Len(calls) >= 2
    /\ Returned(1) /\ Unwrap(calls[1].ret).ok /\ ReplyFor(1).for = 1
    /\ Returned(2) /\ Unwrap(calls[2].ret).ok /\ ReplyFor(2).for = 2
    /\ calls[1].op # calls[2].op
    /\ hrecv[1].id = 1 /\ hrecv[2].id = 2

C27_WitnessCanceled ==
    /\ HandlerGone
    /\ \E i \in DOMAIN calls :
          /\ Returned(i) /\ Unwrap(calls[i].ret).txt = "ChannelCanceled"
          /\ \E k \in DOMAIN hrecv : hrecv[k].id = i
    /\ \E j \in DOMAIN calls :
          Returned(j) /\ Unwrap(calls[j].ret).txt = "ChannelSendError"

C27_WitnessOutOfOrder ==
    /\ Len(calls) >= 2
    /\ AwaitsReply(1) /\ calls[1].rx = "pending"
    /\ Returned(2) /\ Unwrap(calls[2].ret).ok /\ ReplyFor(2).for = 2

Delivered == hrecv \o chan
IsRequest(m) == m.kind \in {"Command", "CreatePage", "GetPages", "CloseBrowser"}
IsNotice(m) == m.kind \in {"InsertContext", "DisposeContext"}
HasSent(i) == calls[i].st # "done" \/ calls[i].rx # "none"
RequestsOf(i) == {k \in DOMAIN Delivered : Delivered[k].id = i /\ IsRequest(Delivered[k])}
NoticesOf(i) == {k \in DOMAIN Delivered : Delivered[k].id = i /\ IsNotice(Delivered[k])}
BrowserState == <<bctx, pages, cookies>>

C28_WitnessQueued ==
    /\ Len(hrecv) >= 2 /\ Len(chan) = 1 /\ hstate = "polling"
    /\ chan[1].kind = "DisposeContext"

HandleConfig == Unwrap(Unwrap(browser).config)
BuiltConfig == Unwrap(config)
Launched == IsSome(browser) /\ IsSome(Unwrap(browser).config)
OtherFields == DOMAIN BuiltConfig \ {"executable"}

\* C29 (as stated): the config kept in the handle of a launched browser
\* equals the config that was built.
C29_Original == Launched => HandleConfig = BuiltConfig

\* C29 (amended): once built, the caller's config is changed by no later
\* step, and the config kept in the handle never changes after the launch.
\* The handle's config equals the built one in every field but the
\* executable, which launch replaces by its canonical path; the two configs
\* are equal exactly when the built executable path is already canonical.
\* An attached handle keeps no config.
C29_ConfigFrozenButExecutable ==
    /\ [][IsSome(config) => config' = config]_vars
    /\ [][IsSome(browser) => Unwrap(browser').config = Unwrap(browser).config]_vars
    /\ [](/\ Launched =>
               /\ IsSome(config) /\ Owns
               /\ \A f \in OtherFields : HandleConfig[f] = BuiltConfig[f]
               /\ HandleConfig.executable =
                     canonicalize_except_snap(BuiltConfig.executable)
               /\ (HandleConfig = BuiltConfig) <=>
                     (canonicalize_except_snap(BuiltConfig.executable)
                         = BuiltConfig.executable)
          /\ (IsSome(browser) /\ IsSome(attach)) => Unwrap(browser).config = None)

C29_Witness ==
    /\ Launched
    /\ BuiltConfig.executable = "/usr/bin/chrome-link"
    /\ HandleConfig.executable = "/opt/chrome/chrome"
    /\ "close_ok" \in EventsOf(trace)

C29_WitnessCanonical ==
    /\ Launched /\ dropped
    /\ BuiltConfig.executable = "/usr/bin/chrome"
    /\ HandleConfig = BuiltConfig

Probed == IsSome(attach) /\ IsSome(Unwrap(attach).resp)
Answer == Unwrap(Unwrap(attach).resp)
Target == Unwrap(attach).target
Answered == Probed /\ Answer.ok /\ Answer.ws # <<>>
LOCALHOST == <<"l","o","c","a","l","h","o","s","t">>
LOOPBACK_V6 == <<"[",":",":","1","]">>
LoopbackAddresses == {LOOPBACK, LOCALHOST, LOOPBACK_V6}
Matches == Occurrences(Answer.ws, LOOPBACK)
\* "ws://10.0.0.5:9222/devtools/10.0.0.5"
RewrittenTwice ==
    <<"w","s",":","/","/","1","0",".","0",".","0",".","5",":","9","2",
      "2","2","/","d","e","v","t","o","o","l","s","/","1","0",".","0",
      ".","0",".","5">>

C30_WitnessLocalhost ==
    /\ Answered /\ Answer.ws = FieldLocalhost
    /\ IsSome(browser) /\ Unwrap(browser).debug_ws_url = FieldLocalhost

C30_WitnessV6 ==
    /\ Answered /\ Answer.ws = FieldV6
    /\ IsSome(browser) /\ Unwrap(browser).debug_ws_url = FieldV6

C30_WitnessNoResponse ==
    /\ Probed /\ ~Answer.ok
    /\ pc = "returned_err" /\ Unwrap(launch_err).kind = "NoResponse"
    /\ trace = <<"probe", "return_err">>

(***************************************************************************)
(* ChaserProfileBuilder (profiles.rs, lines 520-577), the evaluation of    *)
(* the generated script in a document, and the Worker wrapper it installs. *)
(***************************************************************************)
MaxProfileCalls == 2
MaxEvals == 2
MaxPosts == 3

ChromeVersions == {9, 130}
MemoryOptions == {16}
CoreOptions == {12}
Locales == {"de-DE"}
Timezones == {"Europe/Berlin"}
Screens == {<<2560, 1440>>}
Messages == {"m1", "m2"}

NotProfile == <<cfgvars, argvars, procvars, racevars, launchvars, sessvars,
                handlevars, remotevars>>

\* ChaserProfileBuilder::chrome_version (lines 520-523)
ProfileChromeVersion(v) ==
    /\ profile = None
    /\ pcalls < MaxProfileCalls
    /\ pbuilder' = [pbuilder EXCEPT !.chrome_version = v]
    /\ pcalls' = pcalls + 1
    /\ UNCHANGED <<profile, doc, wk>>
    /\ UNCHANGED NotProfile

\* ChaserProfileBuilder::gpu (lines 526-529)
ProfileGpu(g) ==
    /\ profile = None
    /\ pcalls < MaxProfileCalls
    /\ pbuilder' = [pbuilder EXCEPT !.gpu = g]
    /\ pcalls' = pcalls + 1
    /\ UNCHANGED <<profile, doc, wk>>
    /\ UNCHANGED NotProfile

\* ChaserProfileBuilder::memory_gb (lines 532-535)
ProfileMemoryGb(gb) ==
    /\ profile = None
    /\ pcalls < MaxProfileCalls
    /\ pbuilder' = [pbuilder EXCEPT !.memory_gb = gb]
    /\ pcalls' = pcalls + 1
    /\ UNCHANGED <<profile, doc, wk>>
    /\ UNCHANGED NotProfile

\* ChaserProfileBuilder::cpu_cores (lines 538-541)
ProfileCpuCores(n) ==
    /\ profile = None
    /\ pcalls < MaxProfileCalls
    /\ pbuilder' = [pbuilder EXCEPT !.cpu_cores = n]
    /\ pcalls' = pcalls + 1
    /\ UNCHANGED <<profile, doc, wk>>
    /\ UNCHANGED NotProfile

\* ChaserProfileBuilder::locale (lines 544-547)
ProfileLocale(l) ==
    /\ profile = None
    /\ pcalls < MaxProfileCalls
    /\ pbuilder' = [pbuilder EXCEPT !.locale = l]
    /\ pcalls' = pcalls + 1
    /\ UNCHANGED <<profile, doc, wk>>
    /\ UNCHANGED NotProfile

\* ChaserProfileBuilder::timezone (lines 550-553)
ProfileTimezone(tz) ==
    /\ profile = None
    /\ pcalls < MaxProfileCalls
    /\ pbuilder' = [pbuilder EXCEPT !.timezone = tz]
    /\ pcalls' = pcalls + 1
    /\ UNCHANGED <<profile, doc, wk>>
    /\ UNCHANGED NotProfile

\* ChaserProfileBuilder::screen (lines 556-562)
ProfileScreen(s) ==
    /\ profile = None
    /\ pcalls < MaxProfileCalls
    /\ pbuilder' = [pbuilder EXCEPT !.screen_width = s[1], !.screen_height = s[2]]
    /\ pcalls' = pcalls + 1
    /\ UNCHANGED <<profile, doc, wk>>
    /\ UNCHANGED NotProfile

\* ChaserProfileBuilder::build (lines 565-577)
ProfileBuild ==
    /\ profile = None
    /\ profile' = Some(ChaserProfileBuilder_build(pbuilder))
    /\ UNCHANGED <<pbuilder, pcalls, doc, wk>>
    /\ UNCHANGED NotProfile

\* the script generated for the profile is evaluated in the document
DocEvaluate ==
    /\ IsSome(profile)
    /\ Len(doc.evals) < MaxEvals
    /\ doc' = EvaluateScript(doc, bootstrap_script(Unwrap(profile)))
    /\ UNCHANGED <<pbuilder, pcalls, profile, wk>>
    /\ UNCHANGED NotProfile

\* page code calls `new Worker(url)` in a document where the script has run
WorkerNew ==
    /\ doc.Worker_wrappers > 0
    /\ wk.st = "none"
    /\ wk' = Wrapper_new(wk)
    /\ UNCHANGED <<pbuilder, pcalls, profile, doc>>
    /\ UNCHANGED NotProfile

\* the fetch of the worker's code ends
WorkerFetched(ok) ==
    /\ wk.st = "fetching"
    /\ wk' = IF ok THEN Wrapper_fetched(wk) ELSE Wrapper_fetch_failed(wk)
    /\ UNCHANGED <<pbuilder, pcalls, profile, doc>>
    /\ UNCHANGED NotProfile

\* a callback registered on the fulfilled workerPromise runs
WorkerReact ==
    /\ wk.st = "resolved"
    /\ wk.reactions # <<>>
    /\ wk' = Wrapper_react(wk)
    /\ UNCHANGED <<pbuilder, pcalls, profile, doc>>
    /\ UNCHANGED NotProfile

\* page code calls postMessage of the wrapper
WorkerPost(msg) ==
    /\ wk.st # "none"
    /\ Len(wk.posted) < MaxPosts
    /\ wk' = Wrapper_postMessage(wk, msg)
    /\ UNCHANGED <<pbuilder, pcalls, profile, doc>>
    /\ UNCHANGED NotProfile

\* page code assigns onmessage of the wrapper, or calls its terminate (each
\* is followed once: a second call registers the same callback again)
WorkerCall(reaction) ==
    /\ wk.st # "none"
    /\ \A i \in DOMAIN wk.reactions : wk.reactions[i] # reaction
    /\ ~ (reaction = "onmessage" /\ wk.onmessage)
    /\ ~ (reaction = "terminate" /\ wk.terminated)
    /\ wk' = Wrapper_then(wk, reaction)
    /\ UNCHANGED <<pbuilder, pcalls, profile, doc>>
    /\ UNCHANGED NotProfile

InitProfile ==
    /\ cb = BrowserConfigBuilder_default
    /\ ncalls = 0
    /\ config = None
    /\ cphase = "building"
    /\ builder = ArgsBuilder_new
    /\ contrib = <<>>
    /\ rendered = EmptyBag
    /\ bphase = "open"
    /\ child = "none"
    /\ exit_status = None
    /\ timer_fired = FALSE
    /\ pipe = <<>>
    /\ pipe_open = FALSE
    /\ nwrites = 0
    /\ bufrd = <<>>
    /\ stderr_bytes = <<>>
    /\ read_count = 0
    /\ last_line = None
    /\ outcome = None
    /\ pc = "idle"
    /\ launch_err = None
    /\ cleanup = <<>>
    /\ trace = <<>>
    /\ chan = <<>>
    /\ hstate = "none"
    /\ cpc = "idle"
    /\ hclose = "none"
    /\ browser = None
    /\ dropped = FALSE
    /\ warned = 0
    /\ attach = None
    /\ calls = <<>>
    /\ hpending = {}
    /\ hrecv = <<>>
    /\ hctx = {}
    /\ bctx = <<>>
    /\ pages = <<>>
    /\ cookies = {}
    /\ pbuilder \in ProfilePresets
    /\ pcalls = 0
    /\ profile = None
    /\ doc = NewDocument
    /\ wk = NoWorker

NextProfile ==
    \/ \E v \in ChromeVersions : ProfileChromeVersion(v)
    \/ \E g \in Gpu : ProfileGpu(g)
    \/ \E gb \in MemoryOptions : ProfileMemoryGb(gb)
    \/ \E n \in CoreOptions : ProfileCpuCores(n)
    \/ \E l \in Locales : ProfileLocale(l)
    \/ \E tz \in Timezones : ProfileTimezone(tz)
    \/ \E s \in Screens : ProfileScreen(s)
    \/ ProfileBuild
    \/ DocEvaluate

SpecProfile == InitProfile /\ [][NextProfile]_vars

InitWorker ==
    /\ cb = BrowserConfigBuilder_default
    /\ ncalls = 0
    /\ config = None
    /\ cphase = "building"
    /\ builder = ArgsBuilder_new
    /\ contrib = <<>>
    /\ rendered = EmptyBag
    /\ bphase = "open"
    /\ child = "none"
    /\ exit_status = None
    /\ timer_fired = FALSE
    /\ pipe = <<>>
    /\ pipe_open = FALSE
    /\ nwrites = 0
    /\ bufrd = <<>>
    /\ stderr_bytes = <<>>
    /\ read_count = 0
    /\ last_line = None
    /\ outcome = None
    /\ pc = "idle"
    /\ launch_err = None
    /\ cleanup = <<>>
    /\ trace = <<>>
    /\ chan = <<>>
    /\ hstate = "none"
    /\ cpc = "idle"
    /\ hclose = "none"
    /\ browser = None
    /\ dropped = FALSE
    /\ warned = 0
    /\ attach = None
    /\ calls = <<>>
    /\ hpending = {}
    /\ hrecv = <<>>
    /\ hctx = {}
    /\ bctx = <<>>
    /\ pages = <<>>
    /\ cookies = {}
    /\ pbuilder \in ProfilePresets
    /\ pcalls = 0
    /\ profile = Some(ChaserProfileBuilder_build(pbuilder))
    /\ doc = NewDocument
    /\ wk = NoWorker

NextWorker ==
    \/ DocEvaluate
    \/ WorkerNew
    \/ \E ok \in BOOLEAN : WorkerFetched(ok)
    \/ WorkerReact
    \/ \E msg \in Messages : WorkerPost(msg)
    \/ \E reaction \in {"onmessage", "terminate"} : WorkerCall(reaction)

SpecWorker == InitWorker /\ [][NextWorker]_vars

(***************************************************************************)
(* Claims about ChaserProfile and the script it generates.                 *)
(***************************************************************************)
\* part occurs in text as a run of adjacent characters
PartOf(part, text) ==
    \E i \in 1..(Len(text) - Len(part) + 1) :
        SubSeq(text, i, i + Len(part) - 1) = part

\* the token by which a user agent names the operating system
PlatformToken(os) ==
    CASE os = "Windows" -> <<"W","i","n","d","o","w","s"," ","N","T">>
      [] os \in {"MacOSIntel", "MacOSArm"} -> <<"M","a","c","i","n","t","o","s","h">>
      [] os = "Linux" -> <<"L","i","n","u","x">>

\* the version numbers a profile of the model can carry, as written
VersionText(v) ==
    CASE v = 9 -> <<"9">>
      [] v = 129 -> <<"1","2","9">>
      [] v = 130 -> <<"1","3","0">>

\* the profile with another GPU preset and every other field the same
WithGpu(p, g) ==
    [os |-> p.os, chrome_version |-> p.chrome_version, gpu |-> g,
     memory_gb |-> p.memory_gb, cpu_cores |-> p.cpu_cores, locale |-> p.locale,
     timezone |-> p.timezone, screen_width |-> p.screen_width,
     screen_height |-> p.screen_height]

\* C31: the user agent of every built profile contains the platform token
\* of its operating system and "Chrome/<configured version>."; a profile
\* that differs from it only in the GPU preset has a different renderer
\* string and the same platform, client-hints platform and user agent.
C31_UserAgentNamesPlatformAndVersion ==
    IsSome(profile) =>
        LET p == Unwrap(profile) IN
        /\ PartOf(PlatformToken(p.os), user_agent(p))
        /\ PartOf(<<"C","h","r","o","m","e","/">> \o VersionText(p.chrome_version)
                      \o <<".">>,
                  user_agent(p))
        /\ \A g \in Gpu \ {p.gpu} :
               /\ Gpu_renderer(g) # Gpu_renderer(p.gpu)
               /\ Os_platform(WithGpu(p, g).os) = Os_platform(p.os)
               /\ Os_hints_platform(WithGpu(p, g).os) = Os_hints_platform(p.os)
               /\ user_agent(WithGpu(p, g)) = user_agent(p)

\* a Linux profile built after chrome_version(130) and gpu(..)
C31_WitnessConfiguredProfile ==
    /\ IsSome(profile)
    /\ Unwrap(profile).os = "Linux"
    /\ Unwrap(profile).chrome_version = 130
    /\ Unwrap(profile).gpu = "AppleM4Max"
    /\ pcalls = 2

\* the client hints a document answers with once the script has run in it
ClientHints == Unwrap(doc.userAgentData)

\* the answer of getHighEntropyValues(["platform"]) in the document
HighEntropyPlatform == Unwrap(doc.highEntropy).platform

\* C32: in a document where the script of the profile has run, the brand
\* entries of Chrome and Chromium carry the profile's Chrome version and
\* getHighEntropyValues answers `platform` with the string that
\* userAgentData.platform reports.
C32_Original ==
    (IsSome(profile) /\ IsSome(doc.userAgentData)) =>
        /\ \A i \in DOMAIN ClientHints.brands :
               ClientHints.brands[i].brand \in {"Google Chrome", "Chromium"} =>
                   ClientHints.brands[i].version =
                       VersionText(Unwrap(profile).chrome_version)
        /\ HighEntropyPlatform = ClientHints.platform

\* the script of a Windows profile has run: userAgentData.platform is
\* "Windows", the high-entropy answer is navigator.platform's "Win32"
C32_WitnessPlatformAnswersDiffer ==
    /\ IsSome(profile)
    /\ Unwrap(profile).os = "Windows"
    /\ IsSome(doc.userAgentData)
    /\ ClientHints.platform = "Windows"
    /\ HighEntropyPlatform = "Win32"
    /\ \A i \in 1..2 : ClientHints.brands[i].version =
                           VersionText(Unwrap(profile).chrome_version)

\* what page code can read of the spoofed surface of a document
Spoofed(d) ==
    [platform |-> d.platform,
     hardware |-> <<d.hardwareConcurrency, d.deviceMemory, d.maxTouchPoints>>,
     webgl |-> <<d.webgl_vendor, d.webgl_renderer>>,
     hints |-> <<d.userAgentData, d.highEntropy>>,
     webdriver |-> d.webdriver,
     chrome |-> d.chrome]

\* the document after the script of the profile has been applied to it once
AppliedOnce == RunScript(NewDocument, bootstrap_script(Unwrap(profile)))

\* C33: no evaluation of the script in the document throws, and after the
\* second evaluation the spoofed values are those of a single application.
C33_Original ==
    /\ \A i \in DOMAIN doc.evals : doc.evals[i] = "completed"
    /\ Len(doc.evals) = 2 => Spoofed(doc) = Spoofed(AppliedOnce)

\* the second evaluation in the same document threw, and left the values
\* of the first application in place
C33_WitnessSecondEvaluationThrows ==
    /\ doc.evals = <<"completed", "SyntaxError">>
    /\ Spoofed(doc) = Spoofed(AppliedOnce)
    /\ doc.Worker_wrappers = 1

\* the real worker has been constructed
RealWorkerExists == wk.blob # <<>>

\* C34: the real worker is constructed only from the injected code followed
\* by the fetched code, after the fetch; until the wrapper has handed over
\* to it, it has received nothing and every posted message is buffered in
\* posting order, with the delivering callback first in line once the
\* worker exists; from the handover on, the messages it has received are
\* exactly the posted ones, each once and in posting order.
C34_BufferedThenDeliveredInOrder ==
    /\ RealWorkerExists <=> wk.st = "resolved"
    /\ RealWorkerExists => wk.blob = <<"injectedCode", "code">>
    /\ wk.realWorker => (RealWorkerExists /\ wk.received = wk.posted)
    /\ ~ wk.realWorker =>
           /\ wk.received = <<>>
           /\ wk.pendingMessages = wk.posted
           /\ RealWorkerExists => Head(wk.reactions) = "deliver"

\* two messages were posted before the real worker existed and one after
\* the handover; all three have reached it in posting order
C34_WitnessBufferedAndDirect ==
    /\ wk.realWorker
    /\ Len(wk.pendingMessages) = 2
    /\ wk.posted = <<"m2", "m1", "m2">>
    /\ wk.received = wk.posted

\* the fetch failed: no real worker, the posted messages stay buffered
C34_WitnessFetchFailed ==
    /\ wk.st = "rejected"
    /\ Len(wk.pendingMessages) = 3
    /\ wk.received = <<>>

(***************************************************************************)
(* Claims about the flags launch() derives from the config, when the       *)
(* caller's own arguments already hold the key.                            *)
(***************************************************************************)
CheckedKeys ==
    {"user-data-dir", "window-size", "headless", "disable-blink-features",
     "disable-features", "load-extension"}

\* the values the fields of the config stand for under key k
ConfigValues(k) ==
    CASE k = "user-data-dir" -> << ConfiguredUserDataDir >>
      [] k = "window-size" ->
            IF Cfg.window_size = None THEN <<>>
            ELSE << UIntToString(Cfg.window_size[1][1]),
                    UIntToString(Cfg.window_size[1][2]) >>
      [] k = "headless" -> IF Cfg.headless = "New" THEN << "new" >> ELSE <<>>
      [] k = "disable-blink-features" ->
            IF Cfg.hidden THEN << "AutomationControlled" >> ELSE <<>>
      [] k = "disable-features" ->
            IF Cfg.disable_https_first
            THEN << "HttpsUpgrades", "HttpsFirstBalancedModeAutoEnable" >>
            ELSE <<>>
      [] k = "load-extension" -> Cfg.extensions

\* C35: for each of the six keys that the caller's own arguments hold, the
\* command line has exactly one token of that key; its values are the
\* caller's values (after the built-in default values of the key, when the
\* defaults are enabled) followed by the values derived from the config:
\* nothing is replaced and nothing is skipped because the key is present.
C35_ConfigFlagsAppendToCallerValues ==
    ArgsRendered =>
        \A k \in CheckedKeys :
            CallerHas(k) =>
                /\ FlagIs(k, BaseValues(k) \o ConfigValues(k))
                /\ Cfg.disable_default_args =>
                       FlagIs(k, CallerValues(k) \o ConfigValues(k))

\* hide() with the caller argument disable-blink-features=Bar
C35_WitnessBlinkFeatures ==
    /\ cphase = "launched"
    /\ Cfg.hidden
    /\ Cfg.args = << ArgValue("disable-blink-features", "Bar") >>
    /\ CopiesIn("--disable-blink-features=Bar,AutomationControlled", rendered) = 1

\* new headless mode with the caller's bare headless argument
C35_WitnessHeadless ==
    /\ cphase = "launched"
    /\ Cfg.headless = "New"
    /\ Cfg.args = << ArgKey("headless") >>
    /\ CopiesIn("--headless=new", rendered) = 1
    /\ CopiesIn("--headless", rendered) = 0

\* a window size with the caller argument window-size=1,1
C35_WitnessWindowSize ==
    /\ cphase = "launched"
    /\ Cfg.window_size # None
    /\ Cfg.args = << ArgValue("window-size", "1,1") >>
    /\ builder["window-size"][1] = "1,1"
    /\ Len(builder["window-size"]) = 3

\* disable_https_first with the caller argument disable-features=Foo and
\* the default arguments enabled
C35_WitnessDisableFeatures ==
    /\ cphase = "launched"
    /\ ~Cfg.disable_default_args
    /\ Cfg.disable_https_first
    /\ Cfg.args = << ArgValue("disable-features", "Foo") >>
    /\ CopiesIn("--disable-features=TranslateUI,Foo,HttpsUpgrades,HttpsFirstBalancedModeAutoEnable",
                rendered) = 1

\* a configured extension with the caller argument load-extension=/ext/c
C35_WitnessLoadExtension ==
    /\ cphase = "launched"
    /\ Cfg.extensions # <<>>
    /\ Cfg.args = << ArgValue("load-extension", "/ext/c") >>
    /\ builder["load-extension"] = << "/ext/c" >> \o Cfg.extensions

(***************************************************************************)
(* Claims about the incognito context of the handle and set_cookies.       *)
(***************************************************************************)
QuitInFlight(id) ==
    /\ id \in DOMAIN calls /\ QuitOf(id)
    /\ calls[id].st \in {"await", "notify"}
QuitReturns(id) == QuitInFlight(id) /\ calls'[id].st = "done"
QuitFailedWith(id, err) ==
    /\ id \in DOMAIN calls /\ QuitOf(id) /\ IsSome(QuitContext(id))
    /\ calls[id].st = "done"
    /\ ~Unwrap(calls[id].ret).ok /\ Unwrap(calls[id].ret).txt = err

\* C36: the step in which quit_incognito_context is called leaves the
\* handle without an active context, before any reply to the dispose
\* command; the handle has none while the call is in flight and none in the
\* state in which the call returns, with Ok or with an error.  Afterwards
\* only the response to a later start_incognito_context gives it one.
C36_QuitClearsContextFirst ==
    /\ [][CallBegins("quit_incognito_context") => ActiveContext' = None]_vars
    /\ [](\A id \in DOMAIN calls : QuitInFlight(id) => ActiveContext = None)
    /\ [][\A id \in DOMAIN calls : QuitReturns(id) => ActiveContext' = None]_vars
    /\ [][(IsSome(browser) /\ ActiveContext = None /\ IsSome(ActiveContext')) =>
             \E j \in DOMAIN calls : ContextCreatedFor(j)]_vars

\* quit returned the error of a canceled oneshot: the context is still
\* alive in the browser and the handle no longer names it
C36_WitnessCanceled ==
    \E id \in DOMAIN calls :
       /\ QuitFailedWith(id, "ChannelCanceled")
       /\ ActiveContext = None
       /\ bctx[Unwrap(QuitContext(id))]

\* quit failed to send the dispose command
C36_WitnessSendError ==
    \E id \in DOMAIN calls :
       /\ QuitFailedWith(id, "ChannelSendError")
       /\ ActiveContext = None
       /\ bctx[Unwrap(QuitContext(id))]

StartOf(id) == calls[id].op = "start_incognito_context"
StartFailed(id) ==
    /\ id \in DOMAIN calls /\ StartOf(id)
    /\ calls[id].st = "done" /\ ~Unwrap(calls[id].ret).ok
ConfiguredIncognito ==
    /\ IsSome(browser)
    /\ IsSome(Unwrap(browser).config)
    /\ Unwrap(Unwrap(browser).config).incognito
InsertNotices == {m \in SentMessages : m.kind = "InsertContext"}

\* C37: start_incognito_context on a browser launched with the incognito
\* flag returns Ok in the step of the call, puts nothing on the channel and
\* leaves the handle as it is.  On any other browser the call sends one
\* createBrowserContext command and the active context stays as it is until
\* the response; when the call returns an error instead of a created
\* context, the active context is the one before the call, and an
\* InsertContext message is only ever sent for a call whose command was
\* answered with a created context.
C37_StartWithoutEffectOnFailure ==
    /\ [][(CallBegins("start_incognito_context") /\ ConfiguredIncognito) =>
            /\ chan' = chan /\ trace' = trace /\ hpending' = hpending
            /\ browser' = browser
            /\ LastCall(calls').st = "done" /\ Unwrap(LastCall(calls').ret).ok]_vars
    /\ [][(CallBegins("start_incognito_context") /\ ~ConfiguredIncognito) =>
            /\ ActiveContext' = ActiveContext
            /\ hstate # "ended" =>
                  /\ Len(chan') = Len(chan) + 1
                  /\ chan'[Len(chan')].method = "Target.createBrowserContext"
            /\ hstate = "ended" =>
                  /\ chan' = chan
                  /\ LastCall(calls').st = "done"
                  /\ ~Unwrap(LastCall(calls').ret).ok]_vars
    /\ [][\A id \in DOMAIN calls :
            (StartOf(id) /\ calls[id].st = "await" /\ calls'[id].st = "done") =>
               /\ ~Unwrap(calls'[id].ret).ok
               /\ ActiveContext' = ActiveContext
               /\ chan' = chan]_vars
    /\ [](\A m \in InsertNotices :
             /\ StartOf(m.id)
             /\ IsSome(calls[m.id].reply) /\ Unwrap(calls[m.id].reply).ok
             /\ m.ctx = Some(Unwrap(calls[m.id].reply).val))
    /\ [](ConfiguredIncognito =>
             /\ ActiveContext = None
             /\ \A m \in SentMessages : m.method # "Target.createBrowserContext"
             /\ InsertNotices = {})

\* two calls on a browser launched with the incognito flag: both returned
\* Ok and nothing was ever sent
C37_WitnessConfigured ==
    /\ ConfiguredIncognito
    /\ Len(calls) = 2
    /\ \A id \in 1..2 : StartOf(id) /\ calls[id].st = "done" /\ Unwrap(calls[id].ret).ok
    /\ SentMessages = {}
    /\ ActiveContext = None

\* a context is active, a second start fails with a canceled oneshot: the
\* active context is still the first one and one InsertContext was sent
C37_WitnessCreateFailed ==
    /\ Len(calls) = 2
    /\ StartOf(1) /\ calls[1].st = "done" /\ Unwrap(calls[1].ret).ok
    /\ StartFailed(2) /\ Unwrap(calls[2].ret).txt = "ChannelCanceled"
    /\ ActiveContext = Some(Unwrap(calls[1].reply).val)
    /\ Cardinality(InsertNotices) = 1

\* the contexts the start calls before call id were answered with and took
\* over into the handle
CreatedBefore(id) ==
    {Unwrap(calls[j].reply).val :
        j \in {i \in 1..(id - 1) : /\ StartOf(i) /\ calls[i].st \in {"notify", "done"}
                                     /\ calls[i].rx = "value"
                                     /\ Unwrap(calls[i].reply).ok}}
CreatedByHandle == CreatedBefore(Len(calls) + 1)
Greatest(S) == CHOOSE x \in S : \A y \in S : y <= x
DisposeCommands ==
    {m \in SentMessages : m.method = "Target.disposeBrowserContext"}
DisposedByHandle == {Unwrap(m.ctx) : m \in DisposeCommands}

\* C38: the handle names at most one context, the one created last.  The
\* response to a start_incognito_context makes the created context the
\* active one whether or not another was active, and that step disposes of
\* nothing and sends nothing.  Every dispose command the handle sends comes
\* from a quit_incognito_context and names the context created last before
\* that call; a context that was replaced by a later one is never named by
\* a dispose command and stays alive in the browser.
C38_OnlyLatestContextTracked ==
    /\ [][\A id \in DOMAIN calls :
            ContextCreatedFor(id) =>
               /\ ActiveContext' = Some(Unwrap(calls[id].reply).val)
               /\ ActiveContext' # ActiveContext
               /\ bctx' = bctx /\ chan' = chan /\ hpending' = hpending]_vars
    /\ [](\A m \in DisposeCommands :
             /\ QuitOf(m.id)
             /\ CreatedBefore(m.id) # {}
             /\ Unwrap(m.ctx) = Greatest(CreatedBefore(m.id)))
    /\ [](\A c \in CreatedByHandle :
             c # Greatest(CreatedByHandle) =>
                (c \notin DisposedByHandle \/ \E m \in DisposeCommands :
                     Unwrap(m.ctx) = c /\ c = Greatest(CreatedBefore(m.id))))
    /\ [](\A c \in CreatedByHandle :
             (c \in DOMAIN bctx /\ ~bctx[c]) => c \in DisposedByHandle)
    /\ []((IsSome(browser) /\ IsSome(ActiveContext)) =>
             Unwrap(ActiveContext) = Greatest(CreatedByHandle))

\* start, start, quit, all successful: the second context is disposed, the
\* first is alive in the browser and the handle names none
C38_WitnessReplacedContextLeaks ==
    /\ Len(calls) = 3
    /\ StartOf(1) /\ StartOf(2) /\ QuitOf(3)
    /\ \A id \in 1..3 : calls[id].st = "done" /\ Unwrap(calls[id].ret).ok
    /\ CreatedByHandle = {1, 2}
    /\ DisposedByHandle = {2}
    /\ bctx = <<TRUE, FALSE>>
    /\ ActiveContext = None

SetCookiesOf(id) == calls[id].op = "set_cookies"
Batch(id) == calls[id].arg.cookies
NamesOf(cks) == {cks[i].name : i \in DOMAIN cks}
SetCookiesCommands == {m \in SentMessages : m.method = "Storage.setCookies"}
HasNoUrl(c) == c.url = None

\* C39: a set_cookies call either is rejected in the step it is made, with
\* nothing sent and the browser's cookies as they were, or sends exactly one
\* command that carries the whole batch.  It is rejected exactly when some
\* cookie of the batch carries a url that is not well-formed, wherever that
\* cookie stands in the list; a cookie without url never causes rejection.
\* The browser holds a cookie only if a whole batch with it was sent.
C39_CookieBatchAllOrNothing ==
    /\ [][CallBegins("set_cookies") =>
            LET id == Len(calls')
                cks == calls'[id].arg.cookies
            IN  /\ IllFormed(cks) =>
                      /\ chan' = chan /\ cookies' = cookies
                      /\ calls'[id].st = "done"
                      /\ Unwrap(calls'[id].ret).txt = "InvalidCookieUrl"
                /\ (~IllFormed(cks) /\ hstate # "ended") =>
                      /\ Len(chan') = Len(chan) + 1
                      /\ SubSeq(chan', 1, Len(chan)) = chan
                      /\ chan'[Len(chan')].method = "Storage.setCookies"
                      /\ chan'[Len(chan')].cookies = cks
                      /\ calls'[id].st = "await"
                /\ (\A i \in DOMAIN cks : HasNoUrl(cks[i])
                                            \/ validate_cookie_url(Unwrap(cks[i].url))) =>
                      (calls'[id].st = "done" =>
                          Unwrap(calls'[id].ret).txt # "InvalidCookieUrl")]_vars
    /\ [](\A m \in SetCookiesCommands :
             /\ SetCookiesOf(m.id)
             /\ m.cookies = Batch(m.id)
             /\ ~IllFormed(m.cookies))
    /\ [](\A n \in cookies :
             \E m \in SetCookiesCommands : n \in NamesOf(m.cookies))
    /\ [](\A id \in DOMAIN calls :
             (SetCookiesOf(id) /\ IllFormed(Batch(id))) =>
                 \A m \in SetCookiesCommands : m.id # id)

\* a batch whose second cookie is ill-formed was rejected with its valid
\* first cookie unsent; a batch with a cookie without url was then accepted
\* whole
C39_WitnessRejectedThenBareAccepted ==
    /\ Len(calls) = 2
    /\ SetCookiesOf(1) /\ Batch(1) = <<GoodCookie, BadCookie>> /\ Rejected(calls[1])
    /\ SetCookiesOf(2) /\ Batch(2) = <<BareCookie, GoodCookie>>
    /\ calls[2].st = "done" /\ Unwrap(calls[2].ret).ok
    /\ Cardinality(SetCookiesCommands) = 1
    /\ cookies = {"a", "b"}

\* the rejected batch left the browser without any cookie
C39_WitnessNothingStored ==
    /\ Len(calls) = 1
    /\ SetCookiesOf(1) /\ Batch(1) = <<GoodCookie, BadCookie>> /\ Rejected(calls[1])
    /\ cookies = {} /\ SentMessages = {}

=============================================================================
